---- MODULE Spec2Model ----
(***************************************************************************)
(* Verification model of llm-mux: the generic streamutil.ResultRecorder,   *)
(* the provider manager's asyncResultWorker and its result processing,     *)
(* the streamutil buffer pool, line scanner and stream reader, the         *)
(* registry's ResolveAllProviders, the tool-call id conversion and the     *)
(* response builder of the IR, the preprocess passes, the translation of   *)
(* an OpenAI request for Gemini, the connection prewarm of the executor    *)
(* and the OAuth request registry.                                         *)
(*                                                                         *)
(* Go channel semantics used throughout:                                   *)
(*  - a select picks nondeterministically among its ready cases; a send on *)
(*    a closed channel is a ready case and panics; a receive on a closed   *)
(*    and empty channel is ready and yields ok = false;                    *)
(*  - a blocking select with no ready case parks the goroutine on all its  *)
(*    channels; the first channel operation that can serve it wakes it     *)
(*    with that case selected;                                             *)
(*  - an unrecovered panic ends the process (no action is enabled after).  *)
(***************************************************************************)
EXTENDS Integers, Sequences, FiniteSets, TLC

VARIABLES
    \* ---- streamutil.ResultRecorder[T] ----
    rQueue,        \* buffered contents of r.queue (items, FIFO)
    rSendq,        \* callers parked in a blocking select with a send on r.queue
    rQueueClosed,  \* close(r.queue) has run
    rStopClosed,   \* close(r.stopCh) has run
    rWorker,       \* worker goroutine -> "run" | "drain" | "exited"
    rCaller,       \* Record / RecordWithContext caller -> its record
    rCtxDone,      \* caller -> its context has been cancelled
    rHandled,      \* item -> number of r.handler(item) invocations
    rStop,         \* position of the Stop call
    rPanic,        \* a goroutine panicked
    \* ---- provider.Manager and its asyncResultWorker ----
    auths,         \* m.auths: auth id -> Auth (with its per-model states)
    now,           \* the wall clock read by time.Now(), in seconds
    mu,            \* m.mu: 0 when free, else the thread holding the write lock
    store,         \* the token store: auth id -> last snapshot persisted
    frame,         \* thread -> its processResult activation (locals, calls made)
    streak,        \* auth, model -> 429 results without Retry-After since the last success
    applied,       \* auth, model -> cooldown applied by the latest such 429
    everFailed,    \* auth, model -> a failed result was recorded on the pair
    steps,         \* number of results processed so far
    wQueue,        \* buffered contents of w.queue (jobs, FIFO)
    wQueueClosed,  \* close(w.queue) has run
    wStopClosed,   \* close(w.stopCh) has run
    wWorker,       \* worker goroutine -> "run" | "drain" | "busy" | "exited"
    wStop,         \* position of the Stop call
    wPanic,        \* a goroutine panicked
    wJobs,         \* job id -> what became of the job handed to Submit
    \* ---- streamutil.BufferPool, LineScanner, OptimizedStreamReader ----
    bufs,          \* buffer id -> capacity and length of the slice behind the pointer
    pools,         \* size class -> buffer id -> times the pointer is in the sync.Pool
    holders,       \* buffer id -> holders the pool handed it to and that have not put it back
    lastGet,       \* the latest Get: size asked, buffer returned
    scanner,       \* the LineScanner with its reader's close-once state
    reader,        \* the OptimizedStreamReader: context, latest Read
    poolOps,       \* number of pool, scanner and reader calls so far
    \* ---- registry.ResolveAllProviders ----
    resolved,      \* the latest call: its arguments and what it returned
    \* ---- translation: tool ids, preprocess, response builder, emitters ----
    toolId,        \* the latest two calls of toClaudeToolID: id and result
    prep,          \* the request under preprocess, the registry, the passes run
    built,         \* the latest response builder call: messages and what it built
    xlate,         \* the OpenAI request, the IR parsed from it, the Gemini requests
    \* ---- executor.PrewarmAntigravityConnections ----
    pwMain,        \* position of the PrewarmAntigravityConnections call
    pwCtxDone,     \* ctx.Done() of the context handed to it is closed
    pwRun,         \* endpoint -> the goroutine running prewarmHTTPWithRetry for it
    \* ---- oauth.Registry ----
    requests,      \* r.requests: state -> request (index into oReqs, 0: no entry)
    byID,          \* r.byID: id -> request (index into oReqs, 0: no entry)
    oReqs,         \* the OAuthRequest objects made so far, with their ResultChan
    oNow,          \* the wall clock read by time.Now(), in seconds
    oCleaned,      \* the time the latest cleanup ran with (0: none yet)
    oOps           \* number of registry calls so far

recVars == <<rQueue, rSendq, rQueueClosed, rStopClosed, rWorker, rCaller,
             rCtxDone, rHandled, rStop, rPanic>>

mgrVars == <<auths, now, mu, store, frame, streak, applied, everFailed, steps>>

wrkVars == <<wQueue, wQueueClosed, wStopClosed, wWorker, wStop, wPanic, wJobs>>

\* the variables a component's actions leave alone
streamVars == <<bufs, pools, holders, lastGet, scanner, reader, poolOps>>

transVars == <<toolId, prep, built, xlate>>

warmVars == <<pwMain, pwCtxDone, pwRun>>

oauthVars == <<requests, byID, oReqs, oNow, oCleaned, oOps>>

svcVars == <<warmVars, oauthVars>>

libVars == <<streamVars, resolved, transVars, svcVars>>

notRec == <<mgrVars, wrkVars, libVars>>
notMgr == <<recVars, wrkVars, libVars>>
notWrk == <<recVars, libVars>>

vars == <<rQueue, rSendq, rQueueClosed, rStopClosed, rWorker, rCaller,
          rCtxDone, rHandled, rStop, rPanic,
          auths, now, mu, store, frame, streak, applied, everFailed, steps,
          wQueue, wQueueClosed, wStopClosed, wWorker, wStop, wPanic, wJobs,
          bufs, pools, holders, lastGet, scanner, reader, poolOps, resolved,
          toolId, prep, built, xlate,
          pwMain, pwCtxDone, pwRun,
          requests, byID, oReqs, oNow, oCleaned, oOps>>

(***************************************************************************)
(* Bounds                                                                  *)
(***************************************************************************)
RecQueueSize == 1
RecWorkers == 2
RecCallers == 2

RecWorkerIds == 1..RecWorkers
RecCallerIds == 1..RecCallers

(***************************************************************************)
(* streamutil.ResultRecorder                                               *)
(***************************************************************************)
RecIdleCaller == [pc |-> "idle", kind |-> "none", ret |-> "none", waited |-> FALSE]

RecInit ==
    /\ rQueue = <<>>
    /\ rSendq = <<>>
    /\ rQueueClosed = FALSE
    /\ rStopClosed = FALSE
    /\ rWorker = [w \in RecWorkerIds |-> "run"]
    /\ rCaller = [c \in RecCallerIds |-> RecIdleCaller]
    /\ rCtxDone = [c \in RecCallerIds |-> FALSE]
    /\ rHandled = [c \in RecCallerIds |-> 0]
    /\ rStop = "idle"
    /\ rPanic = FALSE

\* the send case of a select on r.queue can proceed (on a closed channel it panics)
RecSendReady == rQueueClosed \/ Len(rQueue) < RecQueueSize

RecReturn(c, kind, value) ==
    [rCaller EXCEPT ![c] = [pc |-> "done", kind |-> kind, ret |-> value,
                            waited |-> rCaller[c].waited]]

\* case r.queue <- result: the send case of any of Record's selects is taken
RecSendCase(c, kind) ==
    IF rQueueClosed
    THEN /\ rPanic' = TRUE
         /\ rCaller' = [rCaller EXCEPT ![c] = [pc |-> "panicked", kind |-> kind,
                                               ret |-> "none",
                                               waited |-> rCaller[c].waited]]
         /\ UNCHANGED rQueue
    ELSE /\ rQueue' = Append(rQueue, c)
         /\ rCaller' = RecReturn(c, kind, "true")
         /\ UNCHANGED rPanic

\* Record, first select: case r.queue <- result
RecordSend(c) ==
    /\ ~rPanic
    /\ UNCHANGED notRec
    /\ rCaller[c].pc = "idle"
    /\ RecSendReady
    /\ RecSendCase(c, "Record")
    /\ UNCHANGED <<rSendq, rQueueClosed, rStopClosed, rWorker, rCtxDone, rHandled, rStop>>

\* Record, first select: case <-r.stopCh
RecordStopped(c) ==
    /\ ~rPanic
    /\ UNCHANGED notRec
    /\ rCaller[c].pc = "idle"
    /\ rStopClosed
    /\ rCaller' = RecReturn(c, "Record", "false")
    /\ UNCHANGED <<rQueue, rSendq, rQueueClosed, rStopClosed, rWorker, rCtxDone,
                   rHandled, rStop, rPanic>>

\* a Record that drops the item when the first select finds the queue full
RecordFullDrop(c) ==
    rCaller' = RecReturn(c, "Record", "false")

\* what Record does when the first select finds the queue full: the inner select
RecordFull(c) ==
    rCaller' = [rCaller EXCEPT ![c] = [pc |-> "sel2", kind |-> "Record",
                                       ret |-> "none", waited |-> FALSE]]

\* Record, first select: default (no case ready)
RecordDefault(c) ==
    /\ ~rPanic
    /\ UNCHANGED notRec
    /\ rCaller[c].pc = "idle"
    /\ ~RecSendReady
    /\ ~rStopClosed
    /\ RecordFull(c)
    /\ UNCHANGED <<rQueue, rSendq, rQueueClosed, rStopClosed, rWorker, rCtxDone,
                   rHandled, rStop, rPanic>>

\* Record, inner select: case r.queue <- result
RecordSend2(c) ==
    /\ ~rPanic
    /\ UNCHANGED notRec
    /\ rCaller[c].pc = "sel2"
    /\ RecSendReady
    /\ RecSendCase(c, "Record")
    /\ UNCHANGED <<rSendq, rQueueClosed, rStopClosed, rWorker, rCtxDone, rHandled, rStop>>

\* Record, inner select: case <-r.stopCh
RecordStopped2(c) ==
    /\ ~rPanic
    /\ UNCHANGED notRec
    /\ rCaller[c].pc = "sel2"
    /\ rStopClosed
    /\ rCaller' = RecReturn(c, "Record", "false")
    /\ UNCHANGED <<rQueue, rSendq, rQueueClosed, rStopClosed, rWorker, rCtxDone,
                   rHandled, rStop, rPanic>>

\* Record, inner select: no case ready, the caller parks on r.queue and r.stopCh
RecordPark(c) ==
    /\ ~rPanic
    /\ UNCHANGED notRec
    /\ rCaller[c].pc = "sel2"
    /\ ~RecSendReady
    /\ ~rStopClosed
    /\ rCaller' = [rCaller EXCEPT ![c] = [pc |-> "parked", kind |-> "Record",
                                          ret |-> "none", waited |-> TRUE]]
    /\ rSendq' = Append(rSendq, c)
    /\ UNCHANGED <<rQueue, rQueueClosed, rStopClosed, rWorker, rCtxDone, rHandled,
                   rStop, rPanic>>

\* RecordWithContext: case r.queue <- result
RecordCtxSend(c) ==
    /\ ~rPanic
    /\ UNCHANGED notRec
    /\ rCaller[c].pc = "idle"
    /\ RecSendReady
    /\ RecSendCase(c, "RecordWithContext")
    /\ UNCHANGED <<rSendq, rQueueClosed, rStopClosed, rWorker, rCtxDone, rHandled, rStop>>

\* RecordWithContext: case <-ctx.Done() or case <-r.stopCh
RecordCtxFalse(c) ==
    /\ ~rPanic
    /\ UNCHANGED notRec
    /\ rCaller[c].pc = "idle"
    /\ rCtxDone[c] \/ rStopClosed
    /\ rCaller' = RecReturn(c, "RecordWithContext", "false")
    /\ UNCHANGED <<rQueue, rSendq, rQueueClosed, rStopClosed, rWorker, rCtxDone,
                   rHandled, rStop, rPanic>>

\* RecordWithContext: no case ready, the caller parks
RecordCtxPark(c) ==
    /\ ~rPanic
    /\ UNCHANGED notRec
    /\ rCaller[c].pc = "idle"
    /\ ~RecSendReady
    /\ ~rStopClosed
    /\ ~rCtxDone[c]
    /\ rCaller' = [rCaller EXCEPT ![c] = [pc |-> "parked", kind |-> "RecordWithContext",
                                          ret |-> "none", waited |-> TRUE]]
    /\ rSendq' = Append(rSendq, c)
    /\ UNCHANGED <<rQueue, rQueueClosed, rStopClosed, rWorker, rCtxDone, rHandled,
                   rStop, rPanic>>

\* s without its elements that satisfy drop
RECURSIVE RecWithout(_, _)
RecWithout(s, c) ==
    IF s = <<>> THEN <<>>
    ELSE IF Head(s) = c THEN RecWithout(Tail(s), c)
    ELSE <<Head(s)>> \o RecWithout(Tail(s), c)

\* the caller's context is cancelled; a caller parked in RecordWithContext wakes
RecCtxCancel(c) ==
    /\ ~rPanic
    /\ UNCHANGED notRec
    /\ ~rCtxDone[c]
    /\ \/ rCaller[c].pc = "idle"
       \/ rCaller[c].pc = "parked" /\ rCaller[c].kind = "RecordWithContext"
    /\ rCtxDone' = [rCtxDone EXCEPT ![c] = TRUE]
    /\ IF rCaller[c].pc = "parked" /\ rCaller[c].kind = "RecordWithContext"
       THEN /\ rCaller' = RecReturn(c, "RecordWithContext", "false")
            /\ rSendq' = RecWithout(rSendq, c)
       ELSE UNCHANGED <<rCaller, rSendq>>
    /\ UNCHANGED <<rQueue, rQueueClosed, rStopClosed, rWorker, rHandled, rStop, rPanic>>

\* a receive from r.queue with a buffered item: the head is handled and, when a
\* sender is parked, its item takes the freed slot and the sender returns true
RecReceive ==
    /\ rHandled' = [rHandled EXCEPT ![Head(rQueue)] = @ + 1]
    /\ IF rSendq # <<>>
       THEN /\ rQueue' = Append(Tail(rQueue), Head(rSendq))
            /\ rSendq' = Tail(rSendq)
            /\ rCaller' = RecReturn(Head(rSendq), rCaller[Head(rSendq)].kind, "true")
       ELSE /\ rQueue' = Tail(rQueue)
            /\ UNCHANGED <<rSendq, rCaller>>

\* worker, outer select: case result, ok := <-r.queue with ok: r.handler(result)
RecWorkerRecv(w) ==
    /\ ~rPanic
    /\ UNCHANGED notRec
    /\ rWorker[w] = "run"
    /\ rQueue # <<>>
    /\ RecReceive
    /\ UNCHANGED <<rQueueClosed, rStopClosed, rWorker, rCtxDone, rStop, rPanic>>

\* worker, outer select: the queue is closed and empty, !ok: return
RecWorkerClosed(w) ==
    /\ ~rPanic
    /\ UNCHANGED notRec
    /\ rWorker[w] = "run"
    /\ rQueue = <<>>
    /\ rQueueClosed
    /\ rWorker' = [rWorker EXCEPT ![w] = "exited"]
    /\ UNCHANGED <<rQueue, rSendq, rQueueClosed, rStopClosed, rCaller, rCtxDone,
                   rHandled, rStop, rPanic>>

\* worker, outer select: case <-r.stopCh: enter the drain loop
RecWorkerStopSignal(w) ==
    /\ ~rPanic
    /\ UNCHANGED notRec
    /\ rWorker[w] = "run"
    /\ rStopClosed
    /\ rWorker' = [rWorker EXCEPT ![w] = "drain"]
    /\ UNCHANGED <<rQueue, rSendq, rQueueClosed, rStopClosed, rCaller, rCtxDone,
                   rHandled, rStop, rPanic>>

\* worker, drain loop: an item is buffered: r.handler(result)
RecWorkerDrainRecv(w) ==
    /\ ~rPanic
    /\ UNCHANGED notRec
    /\ rWorker[w] = "drain"
    /\ rQueue # <<>>
    /\ RecReceive
    /\ UNCHANGED <<rQueueClosed, rStopClosed, rWorker, rCtxDone, rStop, rPanic>>

\* worker, drain loop: nothing buffered (closed: !ok, open: default): return
RecWorkerDrainExit(w) ==
    /\ ~rPanic
    /\ UNCHANGED notRec
    /\ rWorker[w] = "drain"
    /\ rQueue = <<>>
    /\ rWorker' = [rWorker EXCEPT ![w] = "exited"]
    /\ UNCHANGED <<rQueue, rSendq, rQueueClosed, rStopClosed, rCaller, rCtxDone,
                   rHandled, rStop, rPanic>>

\* Stop: close(r.stopCh); every goroutine parked on it wakes with that case
RecStopCloseStop ==
    /\ ~rPanic
    /\ UNCHANGED notRec
    /\ rStop = "idle"
    /\ rStop' = "stopClosed"
    /\ rStopClosed' = TRUE
    /\ rCaller' = [c \in RecCallerIds |->
                     IF rCaller[c].pc = "parked"
                     THEN [pc |-> "done", kind |-> rCaller[c].kind, ret |-> "false",
                           waited |-> TRUE]
                     ELSE rCaller[c]]
    /\ rSendq' = <<>>
    /\ UNCHANGED <<rQueue, rQueueClosed, rWorker, rCtxDone, rHandled, rPanic>>

\* Stop: close(r.queue); a sender still parked on it panics
RecStopCloseQueue ==
    /\ ~rPanic
    /\ UNCHANGED notRec
    /\ rStop = "stopClosed"
    /\ rStop' = "queueClosed"
    /\ rQueueClosed' = TRUE
    /\ rPanic' = (rSendq # <<>>)
    /\ UNCHANGED <<rQueue, rSendq, rStopClosed, rWorker, rCaller, rCtxDone, rHandled>>

\* Stop: r.wg.Wait() returns once every worker has exited
RecStopReturn ==
    /\ ~rPanic
    /\ UNCHANGED notRec
    /\ rStop = "queueClosed"
    /\ \A w \in RecWorkerIds : rWorker[w] = "exited"
    /\ rStop' = "returned"
    /\ UNCHANGED <<rQueue, rSendq, rQueueClosed, rStopClosed, rWorker, rCaller,
                   rCtxDone, rHandled, rPanic>>

RecNext ==
    \/ \E c \in RecCallerIds : RecordSend(c)
    \/ \E c \in RecCallerIds : RecordStopped(c)
    \/ \E c \in RecCallerIds : RecordDefault(c)
    \/ \E c \in RecCallerIds : RecordSend2(c)
    \/ \E c \in RecCallerIds : RecordStopped2(c)
    \/ \E c \in RecCallerIds : RecordPark(c)
    \/ \E c \in RecCallerIds : RecordCtxSend(c)
    \/ \E c \in RecCallerIds : RecordCtxFalse(c)
    \/ \E c \in RecCallerIds : RecordCtxPark(c)
    \/ \E c \in RecCallerIds : RecCtxCancel(c)
    \/ \E w \in RecWorkerIds : RecWorkerRecv(w)
    \/ \E w \in RecWorkerIds : RecWorkerClosed(w)
    \/ \E w \in RecWorkerIds : RecWorkerStopSignal(w)
    \/ \E w \in RecWorkerIds : RecWorkerDrainRecv(w)
    \/ \E w \in RecWorkerIds : RecWorkerDrainExit(w)
    \/ RecStopCloseStop
    \/ RecStopCloseQueue
    \/ RecStopReturn

(***************************************************************************)
(* provider.Manager: data model                                            *)
(***************************************************************************)
PoolAuths == {"a1", "a2"}

ModelSeq == <<"m1", "m2", "m3">>

Models == {ModelSeq[i] : i \in 1..Len(ModelSeq)}

\* the registry's quota-group resolver: m1 and m2 share an upstream bucket
GroupOf(m) == IF m \in {"m1", "m2"} THEN "g1" ELSE ""

NoError == [nil |-> TRUE, HTTPStatus |-> 0, Message |-> ""]

NoRetryAfter == [nil |-> TRUE, d |-> 0]

ZeroQuota == [Exceeded |-> FALSE, Reason |-> "", NextRecoverAt |-> 0, BackoffLevel |-> 0]

\* an entry of Auth.ModelStates that has not been created yet
ZeroModelState ==
    [present |-> FALSE, Unavailable |-> FALSE, Status |-> "", NextRetryAfter |-> 0,
     LastError |-> NoError, StatusMessage |-> "", Quota |-> ZeroQuota, UpdatedAt |-> 0]

\* a registered credential with no result recorded yet
NewAuth ==
    [Status |-> "active", LastError |-> NoError, StatusMessage |-> "", UpdatedAt |-> 0,
     Unavailable |-> FALSE, NextRetryAfter |-> 0,
     ModelStates |-> [m \in Models |-> ZeroModelState]]

NoResult ==
    [AuthID |-> "", Model |-> "", Success |-> FALSE, Error |-> NoError,
     RetryAfter |-> NoRetryAfter]

Min2(a, b) == IF a <= b THEN a ELSE b

\* F applied to the value of x (x is evaluated once)
Pipe(x, F(_)) == CHOOSE v \in {F(y) : y \in {x}} : TRUE

\* the elements of ModelSeq that satisfy keep, in order
SelectModels(keep(_)) == SelectSeq(ModelSeq, keep)

RegCall(fn, a, m, reason, held) ==
    [fn |-> fn, auth |-> a, model |-> m, reason |-> reason, locked |-> held]

(***************************************************************************)
(* Helpers of result processing whose source is not part of the sources    *)
(* at hand; they follow the written specification.                         *)
(***************************************************************************)
\* statusCodeFromResult: the HTTP status of the error, 0 without an error
StatusCodeFromResult(err) == IF err.nil THEN 0 ELSE err.HTTPStatus

\* messages the user-error classifier matches
UserErrorMessages == {"invalid role"}

\* CategorizeError: a 4xx whose message the classifier matches is a user error
CategorizeError(statusCode, msg) ==
    IF statusCode >= 400 /\ statusCode <= 499 /\ msg \in UserErrorMessages
    THEN "user_error" ELSE "other"

\* ensureModelState: the model's state, created on first use
EnsureModelState(auth, m) ==
    IF auth.ModelStates[m].present THEN auth
    ELSE [auth EXCEPT !.ModelStates[m] =
             [ZeroModelState EXCEPT !.present = TRUE, !.Status = "active"]]

\* resetModelState: clears unavailability, error, cooldown and quota backoff
ResetModelState(state, t) ==
    [state EXCEPT !.Unavailable = FALSE, !.Status = "active", !.StatusMessage = "",
                  !.NextRetryAfter = 0, !.LastError = NoError, !.Quota = ZeroQuota,
                  !.UpdatedAt = t]

\* the quota backoff ladder: level 0 -> 1 min, 1 -> 5 min, 2 -> 15 min, 3 -> 1 h, 4 -> 6 h
QuotaLadder == <<60, 300, 900, 3600, 21600>>

\* nextQuotaCooldown: the cooldown of this level and the (saturating) next level
NextQuotaCooldown(level) ==
    LET l == IF level < 0 THEN 0 ELSE Min2(level, Len(QuotaLadder) - 1)
    IN  [cooldown |-> QuotaLadder[l + 1],
         nextLevel |-> Min2(l + 1, Len(QuotaLadder) - 1)]

\* the other models of the source model's quota group
GroupMates(m) == SelectModels(LAMBDA x : x # m /\ GroupOf(m) # "" /\ GroupOf(x) = GroupOf(m))

\* propagateQuotaToGroup: every other model of the group shares the quota event
PropagateQuotaToGroup(auth, m, quota, next, t) ==
    LET mates == GroupMates(m)
        mateSet == {mates[i] : i \in 1..Len(mates)}
        ensured(x) == EnsureModelState(auth, x).ModelStates[x]
    IN  [auth |-> [auth EXCEPT !.ModelStates =
                     [x \in Models |->
                        IF x \in mateSet
                        THEN [ensured(x) EXCEPT
                                !.Unavailable = TRUE,
                                !.Status = "error",
                                !.NextRetryAfter = next,
                                !.Quota = [Exceeded |-> TRUE, Reason |-> "quota_group",
                                           NextRecoverAt |-> quota.NextRecoverAt,
                                           BackoffLevel |-> ensured(x).Quota.BackoffLevel],
                                !.UpdatedAt = t]
                        ELSE auth.ModelStates[x]]],
         affected |-> mates]

\* clearQuotaGroupOnSuccess: the group's other quota-exceeded models are cleared
ClearQuotaGroupOnSuccess(auth, m, t) ==
    LET cleared == SelectModels(LAMBDA x :
                      /\ x # m /\ GroupOf(m) # "" /\ GroupOf(x) = GroupOf(m)
                      /\ auth.ModelStates[x].present
                      /\ auth.ModelStates[x].Quota.Exceeded)
        clearedSet == {cleared[i] : i \in 1..Len(cleared)}
    IN  [auth |-> [auth EXCEPT !.ModelStates =
                     [x \in Models |->
                        IF x \in clearedSet
                        THEN [auth.ModelStates[x] EXCEPT
                                !.Unavailable = FALSE,
                                !.Status = "active",
                                !.StatusMessage = "",
                                !.LastError = NoError,
                                !.NextRetryAfter = 0,
                                !.Quota = [ZeroQuota EXCEPT !.BackoffLevel =
                                             auth.ModelStates[x].Quota.BackoffLevel],
                                !.UpdatedAt = t]
                        ELSE auth.ModelStates[x]]],
         cleared |-> cleared]

\* a model state that currently keeps the pair from being picked
StateBlocked(state, t) ==
    state.present /\ state.Unavailable /\ state.NextRetryAfter > t

\* updateAggregatedAvailability: the auth is unavailable when all its models are
UpdateAggregatedAvailability(auth, t) ==
    LET present == {m \in Models : auth.ModelStates[m].present}
        all == present # {} /\ \A m \in present : StateBlocked(auth.ModelStates[m], t)
        retries == {auth.ModelStates[m].NextRetryAfter : m \in present}
    IN  [auth EXCEPT !.Unavailable = all,
                     !.NextRetryAfter =
                        IF all THEN CHOOSE x \in retries : \A y \in retries : x <= y
                        ELSE 0]

\* hasModelError: some model state is in error or unavailable
HasModelError(auth, t) ==
    \E m \in Models :
        /\ auth.ModelStates[m].present
        /\ auth.ModelStates[m].Unavailable \/ auth.ModelStates[m].Status = "error"

\* clearAuthStateOnSuccess: a success without a model clears the auth-level error
ClearAuthStateOnSuccess(auth, t) ==
    [auth EXCEPT !.Unavailable = FALSE, !.Status = "active", !.StatusMessage = "",
                 !.LastError = NoError, !.NextRetryAfter = 0, !.UpdatedAt = t]

\* applyAuthFailureState: a failure without a model is recorded on the auth itself
ApplyAuthFailureState(auth, err, retryAfter, t) ==
    [auth EXCEPT !.Unavailable = TRUE, !.Status = "error",
                 !.LastError = err,
                 !.StatusMessage = err.Message,
                 !.UpdatedAt = t]

(***************************************************************************)
(* asyncResultWorker.updateAuthState (runs under m.mu)                     *)
(***************************************************************************)
\* RetryDelay with 408 missing from the transient statuses
RetryDelayWithout408(statusCode) ==
    CASE statusCode = 401 -> 1800
      [] statusCode \in {402, 403} -> 1800
      [] statusCode = 404 -> 43200
      [] statusCode \in {500, 502, 503, 504} -> 60
      [] OTHER -> 30

\* the switch on statusCode: the retry delay of every status but 429
RetryDelay(statusCode) ==
    CASE statusCode = 401 -> 1800
      [] statusCode \in {402, 403} -> 1800
      [] statusCode = 404 -> 43200
      [] statusCode \in {408, 500, 502, 503, 504} -> 60
      [] OTHER -> 30

\* the switch on statusCode: the suspend reason, "" when no suspension is asked
SuspendReason(statusCode) ==
    CASE statusCode = 401 -> "unauthorized"
      [] statusCode \in {402, 403} -> "payment_required"
      [] statusCode = 404 -> "not_found"
      [] statusCode = 429 -> "quota"
      [] OTHER -> ""

\* QuotaNext advancing the backoff level also when Retry-After is given
QuotaNextAlwaysAdvance(state, retryAfter, t) ==
    LET c == NextQuotaCooldown(state.Quota.BackoffLevel)
    IN  IF ~retryAfter.nil
        THEN [next |-> t + retryAfter.d, level |-> c.nextLevel]
        ELSE [next |-> IF c.cooldown > 0 THEN t + c.cooldown ELSE 0,
              level |-> c.nextLevel]

\* QuotaNext forgetting to store the next backoff level
QuotaNextNoAdvance(state, retryAfter, t) ==
    IF ~retryAfter.nil
    THEN [next |-> t + retryAfter.d, level |-> state.Quota.BackoffLevel]
    ELSE LET c == NextQuotaCooldown(state.Quota.BackoffLevel)
         IN  [next |-> IF c.cooldown > 0 THEN t + c.cooldown ELSE 0,
              level |-> state.Quota.BackoffLevel]

\* case 429: the instant of recovery and the backoff level to store
QuotaNext(state, retryAfter, t) ==
    IF ~retryAfter.nil
    THEN [next |-> t + retryAfter.d, level |-> state.Quota.BackoffLevel]
    ELSE LET c == NextQuotaCooldown(state.Quota.BackoffLevel)
         IN  [next |-> IF c.cooldown > 0 THEN t + c.cooldown ELSE 0,
              level |-> c.nextLevel]

\* registry calls made for the models a group operation touched
GroupCalls(a, ms, fn1, fn2, reason2, held) ==
    LET call(i) == IF i % 2 = 1
                   THEN RegCall(fn1, a, ms[(i + 1) \div 2], "", held)
                   ELSE RegCall(fn2, a, ms[i \div 2], reason2, held)
    IN  [i \in 1..(2 * Len(ms)) |-> call(i)]

NoFlags(auth) ==
    [auth |-> auth, resume |-> FALSE, suspend |-> FALSE, reason |-> "",
     clearQuota |-> FALSE, setQuota |-> FALSE, calls |-> <<>>]

\* UpdateOnSuccess without the reset of the model state
UpdateOnSuccessNoReset(auth, r, t, held) ==
    LET a2 == EnsureModelState(auth, r.Model)
        grp == ClearQuotaGroupOnSuccess(a2, r.Model, t)
        a3 == UpdateAggregatedAvailability(grp.auth, t)
        a4 == IF ~HasModelError(a3, t)
              THEN [a3 EXCEPT !.LastError = NoError, !.StatusMessage = "",
                              !.Status = "active"]
              ELSE a3
    IN  [auth |-> [a4 EXCEPT !.UpdatedAt = t],
         resume |-> TRUE, suspend |-> FALSE, reason |-> "",
         clearQuota |-> TRUE, setQuota |-> FALSE,
         calls |-> GroupCalls(r.AuthID, grp.cleared, "ClearModelQuotaExceeded",
                              "ResumeClientModel", "", held)]

\* result.Success with a model
UpdateOnSuccess(auth, r, t, held) ==
    LET a1 == EnsureModelState(auth, r.Model)
        a2 == [a1 EXCEPT !.ModelStates[r.Model] = ResetModelState(@, t)]
        grp == ClearQuotaGroupOnSuccess(a2, r.Model, t)
        a3 == UpdateAggregatedAvailability(grp.auth, t)
        a4 == IF ~HasModelError(a3, t)
              THEN [a3 EXCEPT !.LastError = NoError, !.StatusMessage = "",
                              !.Status = "active"]
              ELSE a3
    IN  [auth |-> [a4 EXCEPT !.UpdatedAt = t],
         resume |-> TRUE, suspend |-> FALSE, reason |-> "",
         clearQuota |-> TRUE, setQuota |-> FALSE,
         calls |-> GroupCalls(r.AuthID, grp.cleared, "ClearModelQuotaExceeded",
                              "ResumeClientModel", "", held)]

\* ApplyStatus without the propagation of a 429 to the quota group
ApplyStatusNoPropagation(auth, r, statusCode, t) ==
    LET state == auth.ModelStates[r.Model]
    IN  IF statusCode = 429
        THEN LET q == QuotaNext(state, r.RetryAfter, t)
                 quota == [Exceeded |-> TRUE, Reason |-> "quota",
                           NextRecoverAt |-> q.next, BackoffLevel |-> q.level]
             IN  [auth |-> [auth EXCEPT !.ModelStates[r.Model].NextRetryAfter = q.next,
                                        !.ModelStates[r.Model].Quota = quota],
                  affected |-> <<>>]
        ELSE [auth |-> [auth EXCEPT !.ModelStates[r.Model].NextRetryAfter =
                                       t + RetryDelay(statusCode)],
              affected |-> <<>>]

\* the switch on statusCode, applied to the model state (and, for 429, its group)
ApplyStatus(auth, r, statusCode, t) ==
    LET state == auth.ModelStates[r.Model]
    IN  IF statusCode = 429
        THEN LET q == QuotaNext(state, r.RetryAfter, t)
                 quota == [Exceeded |-> TRUE, Reason |-> "quota",
                           NextRecoverAt |-> q.next, BackoffLevel |-> q.level]
                 a1 == [auth EXCEPT !.ModelStates[r.Model].NextRetryAfter = q.next,
                                    !.ModelStates[r.Model].Quota = quota]
             IN  PropagateQuotaToGroup(a1, r.Model, quota, q.next, t)
        ELSE [auth |-> [auth EXCEPT !.ModelStates[r.Model].NextRetryAfter =
                                       t + RetryDelay(statusCode)],
              affected |-> <<>>]

\* UpdateOnFailure marking the auth as failed whatever the error's category
UpdateOnFailureAlwaysError(auth, r, t, held) ==
    LET a0 == EnsureModelState(auth, r.Model)
        statusCode == StatusCodeFromResult(r.Error)
        errMsg == IF r.Error.nil THEN "" ELSE r.Error.Message
        userError == CategorizeError(statusCode, errMsg) = "user_error"
        a1 == IF ~userError
              THEN [a0 EXCEPT !.ModelStates[r.Model].Unavailable = TRUE,
                              !.ModelStates[r.Model].Status = "error"]
              ELSE a0
        a2 == [a1 EXCEPT !.ModelStates[r.Model].UpdatedAt = t]
        a3 == IF ~r.Error.nil /\ ~userError
              THEN [a2 EXCEPT !.ModelStates[r.Model].LastError = r.Error,
                              !.ModelStates[r.Model].StatusMessage = r.Error.Message,
                              !.LastError = r.Error,
                              !.StatusMessage = r.Error.Message]
              ELSE a2
        sw == ApplyStatus(a3, r, statusCode, t)
        a4 == [sw.auth EXCEPT !.Status = "error"]
        a5 == [a4 EXCEPT !.UpdatedAt = t]
    IN  [auth |-> UpdateAggregatedAvailability(a5, t),
         resume |-> FALSE,
         suspend |-> SuspendReason(statusCode) # "",
         reason |-> SuspendReason(statusCode),
         clearQuota |-> FALSE,
         setQuota |-> statusCode = 429,
         calls |-> GroupCalls(r.AuthID, sw.affected, "SetModelQuotaExceeded",
                              "SuspendClientModel", "quota_group", held)]

\* a failed result with a model
UpdateOnFailure(auth, r, t, held) ==
    LET a0 == EnsureModelState(auth, r.Model)
        statusCode == StatusCodeFromResult(r.Error)
        errMsg == IF r.Error.nil THEN "" ELSE r.Error.Message
        userError == CategorizeError(statusCode, errMsg) = "user_error"
        a1 == IF ~userError
              THEN [a0 EXCEPT !.ModelStates[r.Model].Unavailable = TRUE,
                              !.ModelStates[r.Model].Status = "error"]
              ELSE a0
        a2 == [a1 EXCEPT !.ModelStates[r.Model].UpdatedAt = t]
        a3 == IF ~r.Error.nil /\ ~userError
              THEN [a2 EXCEPT !.ModelStates[r.Model].LastError = r.Error,
                              !.ModelStates[r.Model].StatusMessage = r.Error.Message,
                              !.LastError = r.Error,
                              !.StatusMessage = r.Error.Message]
              ELSE a2
        sw == ApplyStatus(a3, r, statusCode, t)
        a4 == IF ~userError THEN [sw.auth EXCEPT !.Status = "error"] ELSE sw.auth
        a5 == [a4 EXCEPT !.UpdatedAt = t]
    IN  [auth |-> UpdateAggregatedAvailability(a5, t),
         resume |-> FALSE,
         suspend |-> SuspendReason(statusCode) # "",
         reason |-> SuspendReason(statusCode),
         clearQuota |-> FALSE,
         setQuota |-> statusCode = 429,
         calls |-> GroupCalls(r.AuthID, sw.affected, "SetModelQuotaExceeded",
                              "SuspendClientModel", "quota_group", held)]

\* updateAuthState: the new auth, the flags it sets and the registry calls it makes
\* itself; held tells whether the calling thread holds m.mu
UpdateAuthState(auth, r, t, held) ==
    IF r.Success
    THEN IF r.Model # ""
         THEN UpdateOnSuccess(auth, r, t, held)
         ELSE NoFlags(ClearAuthStateOnSuccess(auth, t))
    ELSE IF r.Model # ""
         THEN UpdateOnFailure(auth, r, t, held)
         ELSE NoFlags(ApplyAuthFailureState(auth, r.Error, r.RetryAfter, t))

(***************************************************************************)
(* asyncResultWorker.processResult                                         *)
(***************************************************************************)
IdleFrame ==
    [pc |-> "idle", job |-> 0, result |-> NoResult, entered |-> 0, t |-> 0,
     resume |-> FALSE, suspend |-> FALSE, reason |-> "",
     clearQuota |-> FALSE, setQuota |-> FALSE,
     hasClone |-> FALSE, clone |-> NewAuth,
     calls |-> <<>>, quotaHit |-> FALSE, persisted |-> FALSE, hooked |-> FALSE]

\* processResult is entered with result r (for job j): the locals are initialised
EnterFrame(j, r) ==
    [IdleFrame EXCEPT !.pc = "lock", !.job = j, !.result = r, !.entered = now]

\* LockedSection reading the clock when processResult is entered, before the lock
LockedSectionEntryClock(f, as, t, held) ==
    IF f.result.AuthID \in DOMAIN as
    THEN Pipe(UpdateAuthState(as[f.result.AuthID], f.result, f.entered, held), LAMBDA u :
             [auths |-> [as EXCEPT ![f.result.AuthID] = u.auth],
              frame |-> [f EXCEPT !.pc = "unlock", !.t = f.entered,
                                  !.resume = u.resume, !.suspend = u.suspend,
                                  !.reason = u.reason, !.clearQuota = u.clearQuota,
                                  !.setQuota = u.setQuota, !.hasClone = TRUE,
                                  !.clone = u.auth, !.calls = u.calls]])
    ELSE [auths |-> as, frame |-> [f EXCEPT !.pc = "unlock", !.t = f.entered]]

\* LockedSection that takes no clone for persistence
LockedSectionNoClone(f, as, t, held) ==
    IF f.result.AuthID \in DOMAIN as
    THEN Pipe(UpdateAuthState(as[f.result.AuthID], f.result, t, held), LAMBDA u :
             [auths |-> [as EXCEPT ![f.result.AuthID] = u.auth],
              frame |-> [f EXCEPT !.pc = "unlock", !.t = t,
                                  !.resume = u.resume, !.suspend = u.suspend,
                                  !.reason = u.reason, !.clearQuota = u.clearQuota,
                                  !.setQuota = u.setQuota, !.calls = u.calls]])
    ELSE [auths |-> as, frame |-> [f EXCEPT !.pc = "unlock", !.t = t]]

\* the critical section: look the auth up, update it, clone it for persistence
LockedSection(f, as, t, held) ==
    IF f.result.AuthID \in DOMAIN as
    THEN Pipe(UpdateAuthState(as[f.result.AuthID], f.result, t, held), LAMBDA u :
             [auths |-> [as EXCEPT ![f.result.AuthID] = u.auth],
              frame |-> [f EXCEPT !.pc = "unlock", !.t = t,
                                  !.resume = u.resume, !.suspend = u.suspend,
                                  !.reason = u.reason, !.clearQuota = u.clearQuota,
                                  !.setQuota = u.setQuota, !.hasClone = TRUE,
                                  !.clone = u.auth, !.calls = u.calls]])
    ELSE [auths |-> as, frame |-> [f EXCEPT !.pc = "unlock", !.t = t]]

\* after m.mu.Unlock(): registry notifications and the quota manager
Notify(f, held) ==
    LET r == f.result
        c1 == IF f.clearQuota /\ r.Model # ""
              THEN <<RegCall("ClearModelQuotaExceeded", r.AuthID, r.Model, "", held)>>
              ELSE <<>>
        c2 == IF f.setQuota /\ r.Model # ""
              THEN <<RegCall("SetModelQuotaExceeded", r.AuthID, r.Model, "", held)>>
              ELSE <<>>
        c3 == IF f.resume
              THEN <<RegCall("ResumeClientModel", r.AuthID, r.Model, "", held)>>
              ELSE IF f.suspend
              THEN <<RegCall("SuspendClientModel", r.AuthID, r.Model, f.reason, held)>>
              ELSE <<>>
    IN  [f EXCEPT !.pc = "persist",
                  !.calls = f.calls \o c1 \o c2 \o c3,
                  !.quotaHit = (~r.Success /\ ~r.Error.nil /\ r.Error.HTTPStatus = 429)]

\* m.persist(ctx, authToStore) when a clone was taken
PersistStore(f, st) ==
    IF f.hasClone THEN [st EXCEPT ![f.result.AuthID] = [saved |-> TRUE, auth |-> f.clone]]
    ELSE st

\* the 429 results without Retry-After seen on the pair since its last success
NextStreak(r, cap) ==
    IF r.AuthID \in PoolAuths /\ r.Model # ""
    THEN IF r.Success THEN [streak EXCEPT ![r.AuthID][r.Model] = 0]
         ELSE IF StatusCodeFromResult(r.Error) = 429 /\ r.RetryAfter.nil
         THEN [streak EXCEPT ![r.AuthID][r.Model] = Min2(@ + 1, cap)]
         ELSE streak
    ELSE streak

\* the pairs a failed result was recorded on
NextEverFailed(r) ==
    IF r.AuthID \in PoolAuths /\ r.Model # "" /\ ~r.Success
    THEN [everFailed EXCEPT ![r.AuthID][r.Model] = TRUE]
    ELSE everFailed

\* the cooldown the latest 429 without Retry-After applied to the pair
NextApplied(r, as, t) ==
    IF r.AuthID \in PoolAuths /\ r.Model # ""
    THEN IF r.Success THEN [applied EXCEPT ![r.AuthID][r.Model] = 0]
         ELSE IF StatusCodeFromResult(r.Error) = 429 /\ r.RetryAfter.nil
         THEN [applied EXCEPT ![r.AuthID][r.Model] =
                  as[r.AuthID].ModelStates[r.Model].NextRetryAfter - t]
         ELSE applied
    ELSE applied

(***************************************************************************)
(* Bounds of the manager model                                             *)
(***************************************************************************)
StartTime == 100
MaxTicks == 1
MaxStreak == 7
MaxStatusResults == 2
MaxQuotaResults == 3
MaxAggregateResults == 3
WrkWorkers == 1
WrkCallers == 1

WrkWorkerIds == 1..WrkWorkers
WrkCallerIds == (WrkWorkers + 1)..(WrkWorkers + WrkCallers)
Threads == WrkWorkerIds \cup WrkCallerIds
\* the thread that records results synchronously
MainThread == WrkWorkers + 1

MgrInit ==
    /\ auths = [a \in PoolAuths |-> NewAuth]
    /\ now = StartTime
    /\ mu = 0
    /\ store = [a \in PoolAuths |-> [saved |-> FALSE, auth |-> NewAuth]]
    /\ frame = [th \in Threads |-> IdleFrame]
    /\ streak = [a \in PoolAuths |-> [m \in Models |-> 0]]
    /\ applied = [a \in PoolAuths |-> [m \in Models |-> 0]]
    /\ everFailed = [a \in PoolAuths |-> [m \in Models |-> FALSE]]
    /\ steps = 0

\* time passes
Tick ==
    /\ now < StartTime + 60 * MaxTicks
    /\ now' = now + 60
    /\ UNCHANGED <<auths, mu, store, frame, streak, applied, everFailed, steps>>
    /\ UNCHANGED notMgr

\* processResult run from start to end by one thread, nothing interleaved
ProcessResult(th, r) ==
    /\ mu = 0
    /\ IF r.AuthID = ""
       THEN /\ frame' = [frame EXCEPT ![th] = [IdleFrame EXCEPT !.pc = "done", !.result = r]]
            /\ UNCHANGED <<auths, store, streak, applied, everFailed>>
       ELSE \E sec \in {LockedSection(EnterFrame(0, r), auths, now, TRUE)} :
            \E f2 \in {Notify(sec.frame, FALSE)} :
                /\ auths' = sec.auths
                /\ store' = PersistStore(f2, store)
                /\ frame' = [frame EXCEPT ![th] =
                               [f2 EXCEPT !.pc = "done", !.persisted = f2.hasClone,
                                          !.hooked = TRUE]]
                /\ streak' = NextStreak(r, MaxStreak)
                /\ applied' = NextApplied(r, sec.auths, now)
                /\ everFailed' = NextEverFailed(r)
    /\ UNCHANGED <<now, mu>>
    /\ UNCHANGED notMgr

Failure(a, m, status, msg, ra) ==
    [AuthID |-> a, Model |-> m, Success |-> FALSE,
     Error |-> [nil |-> FALSE, HTTPStatus |-> status, Message |-> msg],
     RetryAfter |-> ra]

Success(a, m) ==
    [AuthID |-> a, Model |-> m, Success |-> TRUE, Error |-> NoError,
     RetryAfter |-> NoRetryAfter]

RetryAfterOf(d) == [nil |-> FALSE, d |-> d]

\* the Retry-After values a 429 carries: none, negative, zero, positive
RetryAfters == {NoRetryAfter, RetryAfterOf(-30), RetryAfterOf(0), RetryAfterOf(60)}

\* every status of the transition table, and 400 for "other"
Statuses == {400, 401, 402, 403, 404, 408, 429, 500, 502, 503, 504}

\* results of the status sweep: every outcome on (a1, m1), and a few around it
StatusResults ==
    {Success("a1", "m1")}
    \cup {[Failure("a1", "m1", 0, "", NoRetryAfter) EXCEPT !.Error = NoError]}
    \cup {Failure("a1", "m1", s, msg, NoRetryAfter) :
            s \in Statuses \ {429}, msg \in {"boom"}}
    \cup {Failure("a1", "m1", s, msg, NoRetryAfter) :
            s \in {400, 401, 402, 403, 404, 408}, msg \in {"invalid role"}}
    \cup {Failure("a1", "m1", 429, msg, ra) :
            msg \in {"boom", "invalid role"}, ra \in RetryAfters}
    \cup {Success("a1", "m2"), Failure("a1", "m2", 429, "boom", NoRetryAfter)}
    \cup {Success("a1", ""), Failure("a1", "", 500, "boom", NoRetryAfter)}
    \cup {Success("", "m1"), Failure("zz", "m1", 429, "boom", NoRetryAfter)}

\* results of the quota runs: 429 with every kind of Retry-After, and successes
QuotaResults ==
    {Success("a1", m) : m \in Models}
    \cup {Failure("a1", "m1", 429, "boom", ra) : ra \in RetryAfters}
    \cup {Failure("a1", "m2", 429, "boom", ra) : ra \in {NoRetryAfter, RetryAfterOf(60)}}
    \cup {Failure("a1", "m3", 429, "boom", RetryAfterOf(60))}
    \cup {Success("a2", "m1"), Failure("a2", "m1", 429, "boom", NoRetryAfter)}

\* results of the ladder runs: 429 with and without Retry-After, and successes
LadderResults ==
    {Success("a1", "m1"), Success("a1", "m2"),
     Failure("a1", "m1", 429, "boom", NoRetryAfter),
     Failure("a1", "m1", 429, "boom", RetryAfterOf(60)),
     Failure("a1", "m2", 429, "boom", NoRetryAfter)}

\* MarkResult recorded synchronously, status sweep
MarkStatusResult ==
    /\ steps < MaxStatusResults
    /\ \E r \in StatusResults : ProcessResult(MainThread, r)
    /\ steps' = steps + 1

\* MarkResult recorded synchronously, quota runs
MarkQuotaResult ==
    /\ steps < MaxQuotaResults
    /\ \E r \in QuotaResults : ProcessResult(MainThread, r)
    /\ steps' = steps + 1

\* MarkResult recorded synchronously, ladder runs
MarkLadderResult ==
    /\ \E r \in LadderResults : ProcessResult(MainThread, r)
    /\ UNCHANGED steps

\* results of the aggregation runs: successes and failures on models of a1, with
\* and without an error value, user errors included
AggregateResults ==
    {Success("a1", m) : m \in {"m1", "m3"}}
    \cup {Failure("a1", m, 500, "boom", NoRetryAfter) : m \in {"m1", "m3"}}
    \cup {Failure("a1", "m1", 429, "boom", NoRetryAfter),
          Failure("a1", "m1", 400, "invalid role", NoRetryAfter),
          [Failure("a1", "m1", 0, "", NoRetryAfter) EXCEPT !.Error = NoError]}

\* MarkResult recorded synchronously, aggregation runs
MarkAggregateResult ==
    /\ steps < MaxAggregateResults
    /\ \E r \in AggregateResults : ProcessResult(MainThread, r)
    /\ steps' = steps + 1

WrkIdle ==
    /\ wQueue = <<>>
    /\ wQueueClosed = FALSE
    /\ wStopClosed = FALSE
    /\ wWorker = [w \in WrkWorkerIds |-> "run"]
    /\ wStop = "idle"
    /\ wPanic = FALSE
    /\ wJobs = <<>>


(***************************************************************************)
(* asyncResultWorker: Submit, worker, Stop, and processResult step by step *)
(***************************************************************************)
WrkQueueSize == 1
MaxJobs == 2

\* results handed to Submit: a 429 that reaches its quota group, a result
\* without AuthID and one with an AuthID that is not in the pool
WrkResults ==
    {Failure("a1", "m1", 429, "boom", NoRetryAfter), Success("", "m1"),
     Failure("zz", "m1", 500, "boom", NoRetryAfter)}

\* processResult is called with job j: the early return, or the frame is set up
CallProcessResult(th, j, r) ==
    IF r.AuthID = ""
    THEN UNCHANGED frame
    ELSE frame' = [frame EXCEPT ![th] = EnterFrame(j, r)]

\* a submitted result and what has been done with it (atStop: it was in the
\* queue when Stop was called; updated: the auth as its own state update left
\* it; saved: the snapshot its persist call was given)
NewJob(r, how) ==
    [result |-> r, beforeStop |-> (wStop = "idle"), atStop |-> FALSE,
     processed |-> 0, how |-> how, touched |-> FALSE, updated |-> NewAuth,
     persists |-> 0, persistLocked |-> FALSE, saved |-> NewAuth]

\* a Submit that drops the result when the queue is full
SubmitFallbackDrop(c, r) ==
    /\ wJobs' = Append(wJobs, NewJob(r, "dropped"))
    /\ UNCHANGED frame

\* Submit, default: the queue is full, processResult runs in the caller
SubmitFallback(c, r) ==
    /\ wJobs' = Append(wJobs, [NewJob(r, "fallback") EXCEPT !.processed = 1])
    /\ CallProcessResult(c, Len(wJobs) + 1, r)

\* Submit: case w.queue <- resultJob{...} (a send on the closed queue panics)
SubmitSend(c, r) ==
    /\ ~wPanic
    /\ UNCHANGED notWrk
    /\ frame[c].pc = "idle"
    /\ Len(wJobs) < MaxJobs
    /\ wQueueClosed \/ Len(wQueue) < WrkQueueSize
    /\ IF wQueueClosed
       THEN /\ wPanic' = TRUE
            /\ wJobs' = Append(wJobs, NewJob(r, "panic"))
            /\ UNCHANGED wQueue
       ELSE /\ wQueue' = Append(wQueue, Len(wJobs) + 1)
            /\ wJobs' = Append(wJobs, NewJob(r, "queued"))
            /\ UNCHANGED wPanic
    /\ UNCHANGED <<wQueueClosed, wStopClosed, wWorker, wStop>>
    /\ UNCHANGED mgrVars

\* Submit: default
SubmitDefault(c, r) ==
    /\ ~wPanic
    /\ UNCHANGED notWrk
    /\ frame[c].pc = "idle"
    /\ Len(wJobs) < MaxJobs
    /\ ~wQueueClosed
    /\ Len(wQueue) >= WrkQueueSize
    /\ SubmitFallback(c, r)
    /\ UNCHANGED <<wQueue, wQueueClosed, wStopClosed, wWorker, wStop, wPanic>>
    /\ UNCHANGED <<auths, now, mu, store, streak, applied, everFailed, steps>>

\* a job is received from w.queue and processResult is called with it
WrkReceive(w) ==
    /\ wQueue' = Tail(wQueue)
    /\ wJobs' = [wJobs EXCEPT ![Head(wQueue)].processed = @ + 1]
    /\ CallProcessResult(w, Head(wQueue), wJobs[Head(wQueue)].result)

\* worker, select: case job, ok := <-w.queue with ok
WorkerRecv(w) ==
    /\ ~wPanic
    /\ UNCHANGED notWrk
    /\ wWorker[w] = "run"
    /\ frame[w].pc = "idle"
    /\ wQueue # <<>>
    /\ WrkReceive(w)
    /\ UNCHANGED <<wQueueClosed, wStopClosed, wWorker, wStop, wPanic>>
    /\ UNCHANGED <<auths, now, mu, store, streak, applied, everFailed, steps>>

\* worker, select: the queue is closed and empty, !ok: return
WorkerClosed(w) ==
    /\ ~wPanic
    /\ UNCHANGED notWrk
    /\ wWorker[w] = "run"
    /\ frame[w].pc = "idle"
    /\ wQueue = <<>>
    /\ wQueueClosed
    /\ wWorker' = [wWorker EXCEPT ![w] = "exited"]
    /\ UNCHANGED <<wQueue, wQueueClosed, wStopClosed, wStop, wPanic, wJobs>>
    /\ UNCHANGED mgrVars

\* a worker that returns on the stop signal and leaves the queue as it is
WorkerStopSignalNoDrain(w) ==
    /\ ~wPanic
    /\ UNCHANGED notWrk
    /\ wWorker[w] = "run"
    /\ frame[w].pc = "idle"
    /\ wStopClosed
    /\ wWorker' = [wWorker EXCEPT ![w] = "exited"]
    /\ UNCHANGED <<wQueue, wQueueClosed, wStopClosed, wStop, wPanic, wJobs>>
    /\ UNCHANGED mgrVars

\* worker, select: case <-w.stopCh: go on to drain
WorkerStopSignal(w) ==
    /\ ~wPanic
    /\ UNCHANGED notWrk
    /\ wWorker[w] = "run"
    /\ frame[w].pc = "idle"
    /\ wStopClosed
    /\ wWorker' = [wWorker EXCEPT ![w] = "drain"]
    /\ UNCHANGED <<wQueue, wQueueClosed, wStopClosed, wStop, wPanic, wJobs>>
    /\ UNCHANGED mgrVars

\* worker, for job := range w.queue: a job is received
WorkerDrainRecv(w) ==
    /\ ~wPanic
    /\ UNCHANGED notWrk
    /\ wWorker[w] = "drain"
    /\ frame[w].pc = "idle"
    /\ wQueue # <<>>
    /\ WrkReceive(w)
    /\ UNCHANGED <<wQueueClosed, wStopClosed, wWorker, wStop, wPanic>>
    /\ UNCHANGED <<auths, now, mu, store, streak, applied, everFailed, steps>>

\* worker, for job := range w.queue: the queue is closed and empty: return
WorkerDrainExit(w) ==
    /\ ~wPanic
    /\ UNCHANGED notWrk
    /\ wWorker[w] = "drain"
    /\ frame[w].pc = "idle"
    /\ wQueue = <<>>
    /\ wQueueClosed
    /\ wWorker' = [wWorker EXCEPT ![w] = "exited"]
    /\ UNCHANGED <<wQueue, wQueueClosed, wStopClosed, wStop, wPanic, wJobs>>
    /\ UNCHANGED mgrVars

\* processResult: m.mu.Lock() and the critical section (updateAuthState, Clone)
PRLock(th) ==
    /\ ~wPanic
    /\ UNCHANGED notWrk
    /\ frame[th].pc = "lock"
    /\ mu = 0
    /\ mu' = th
    /\ \E sec \in {LockedSection(frame[th], auths, now, mu' = th)} :
          /\ auths' = sec.auths
          /\ frame' = [frame EXCEPT ![th] = [sec.frame EXCEPT !.pc = "unlock"]]
          /\ streak' = NextStreak(frame[th].result, MaxStreak)
          /\ applied' = NextApplied(frame[th].result, sec.auths, now)
          /\ everFailed' = NextEverFailed(frame[th].result)
          /\ wJobs' = [wJobs EXCEPT ![frame[th].job].touched = (sec.auths # auths),
                                    ![frame[th].job].updated =
                                       IF frame[th].result.AuthID \in PoolAuths
                                       THEN sec.auths[frame[th].result.AuthID]
                                       ELSE NewAuth]
    /\ UNCHANGED <<now, store, steps>>
    /\ UNCHANGED <<wQueue, wQueueClosed, wStopClosed, wWorker, wStop, wPanic>>

\* processResult: m.mu.Unlock() and the registry and quota-manager calls after it
PRUnlock(th) ==
    /\ ~wPanic
    /\ UNCHANGED notWrk
    /\ frame[th].pc = "unlock"
    /\ mu' = 0
    /\ frame' = [frame EXCEPT ![th] = [Notify(frame[th], mu' = th) EXCEPT !.pc = "persist"]]
    /\ UNCHANGED <<auths, now, store, streak, applied, everFailed, steps>>
    /\ UNCHANGED wrkVars

\* processResult: m.persist(ctx, authToStore), m.hook.OnResult(ctx, result), return
PRPersist(th) ==
    /\ ~wPanic
    /\ UNCHANGED notWrk
    /\ frame[th].pc = "persist"
    /\ store' = PersistStore(frame[th], store)
    /\ wJobs' = IF frame[th].hasClone
                THEN [wJobs EXCEPT ![frame[th].job].persists = @ + 1,
                                   ![frame[th].job].persistLocked = (mu = th),
                                   ![frame[th].job].saved = frame[th].clone]
                ELSE wJobs
    /\ frame' = [frame EXCEPT ![th] = IdleFrame]
    /\ UNCHANGED <<auths, now, mu, streak, applied, everFailed, steps>>
    /\ UNCHANGED <<wQueue, wQueueClosed, wStopClosed, wWorker, wStop, wPanic>>

\* time passes while results are submitted and processed
WrkTick ==
    /\ ~wPanic
    /\ now < StartTime + 60 * MaxTicks
    /\ now' = now + 60
    /\ UNCHANGED <<auths, mu, store, frame, streak, applied, everFailed, steps>>
    /\ UNCHANGED notMgr

\* Stop: close(w.stopCh)
WrkStopCloseStop ==
    /\ ~wPanic
    /\ UNCHANGED notWrk
    /\ wStop = "idle"
    /\ wStop' = "stopClosed"
    /\ wStopClosed' = TRUE
    /\ wJobs' = [j \in 1..Len(wJobs) |->
                   [wJobs[j] EXCEPT !.atStop = \E i \in 1..Len(wQueue) : wQueue[i] = j]]
    /\ UNCHANGED <<wQueue, wQueueClosed, wWorker, wPanic>>
    /\ UNCHANGED mgrVars

\* Stop: close(w.queue)
WrkStopCloseQueue ==
    /\ ~wPanic
    /\ UNCHANGED notWrk
    /\ wStop = "stopClosed"
    /\ wStop' = "queueClosed"
    /\ wQueueClosed' = TRUE
    /\ UNCHANGED <<wQueue, wStopClosed, wWorker, wPanic, wJobs>>
    /\ UNCHANGED mgrVars

\* Stop: w.wg.Wait() returns once every worker has exited
WrkStopReturn ==
    /\ ~wPanic
    /\ UNCHANGED notWrk
    /\ wStop = "queueClosed"
    /\ \A w \in WrkWorkerIds : wWorker[w] = "exited"
    /\ wStop' = "returned"
    /\ UNCHANGED <<wQueue, wQueueClosed, wStopClosed, wWorker, wPanic, wJobs>>
    /\ UNCHANGED mgrVars

WrkNext ==
    \/ \E c \in WrkCallerIds : \E r \in WrkResults : SubmitSend(c, r)
    \/ \E c \in WrkCallerIds : \E r \in WrkResults : SubmitDefault(c, r)
    \/ \E w \in WrkWorkerIds : WorkerRecv(w)
    \/ \E w \in WrkWorkerIds : WorkerClosed(w)
    \/ \E w \in WrkWorkerIds : WorkerStopSignal(w)
    \/ \E w \in WrkWorkerIds : WorkerDrainRecv(w)
    \/ \E w \in WrkWorkerIds : WorkerDrainExit(w)
    \/ \E th \in Threads : PRLock(th)
    \/ \E th \in Threads : PRUnlock(th)
    \/ \E th \in Threads : PRPersist(th)
    \/ WrkStopCloseStop
    \/ WrkStopCloseQueue
    \/ WrkStopReturn

\* results of the clock runs: successes on one pair
ClockResults == {Success("a1", "m2")}

\* the worker pool before Stop, with the clock
ClockNext ==
    \/ \E c \in WrkCallerIds : \E r \in ClockResults : SubmitSend(c, r)
    \/ \E c \in WrkCallerIds : \E r \in ClockResults : SubmitDefault(c, r)
    \/ \E w \in WrkWorkerIds : WorkerRecv(w)
    \/ \E th \in Threads : PRLock(th)
    \/ \E th \in Threads : PRUnlock(th)
    \/ \E th \in Threads : PRPersist(th)
    \/ WrkTick

(***************************************************************************)
(* streamutil.BufferPool, LineScanner and OptimizedStreamReader            *)
(***************************************************************************)
smallBufferSize == 4096
mediumBufferSize == 65536
largeBufferSize == 1048576

MaxBufs == 3
MaxPoolOps == 3
MaxStreamOps == 4

BufIds == 1..MaxBufs

PoolClasses == {"small", "medium", "large"}

\* the goroutines that take buffers from the pool besides the scanner
Clients == {"g1", "g2"}

\* sizes asked of Get: inside each class, on each class limit, above the largest
GetSizes == {1, smallBufferSize, mediumBufferSize, largeBufferSize, largeBufferSize + 1}

\* capacities of buffers the callers of Put made themselves
PutCaps == {100, smallBufferSize, 5000, mediumBufferSize, largeBufferSize,
            largeBufferSize + 1}

\* cfg.BufferSize of DefaultStreamReaderConfig
DefaultBufferSize == 65536

NoGet == [called |-> FALSE, size |-> 0, id |-> 0, cap |-> 0, len |-> 0]

NoScanner ==
    [state |-> "none", buf |-> 0, closes |-> 0, puts |-> 0, doneCalls |-> 0,
     bodyCloses |-> 0, closed |-> FALSE]

NoRead ==
    [called |-> FALSE, ctxWasDone |-> FALSE, n |-> 0, err |-> "", bodyReads |-> 0,
     touches |-> 0]

StreamInit ==
    /\ bufs = <<>>
    /\ pools = [c \in PoolClasses |-> [i \in BufIds |-> 0]]
    /\ holders = [i \in BufIds |-> {}]
    /\ lastGet = NoGet
    /\ scanner = NoScanner
    /\ reader = [ctxDone |-> FALSE, reads |-> 0, touches |-> 0, last |-> NoRead]
    /\ poolOps = 0

\* the size class Get and Put choose for a size or capacity ("" for none)
ClassOf(size) ==
    IF size <= smallBufferSize THEN "small"
    ELSE IF size <= mediumBufferSize THEN "medium"
    ELSE IF size <= largeBufferSize THEN "large"
    ELSE ""

\* the capacity of the buffers a class's New function makes
ClassCap(class) ==
    CASE class = "small" -> smallBufferSize
      [] class = "medium" -> mediumBufferSize
      [] OTHER -> largeBufferSize

\* what Get(size) may return: a buffer sync.Pool holds for the class, or a new one
\* (sync.Pool may drop what it holds and call New); above 1 MiB always a new one
GetOutcomes(size) ==
    LET class == ClassOf(size)
        fresh == IF Len(bufs) < MaxBufs
                 THEN {[id |-> Len(bufs) + 1, fresh |-> TRUE,
                        cap |-> IF class = "" THEN size ELSE ClassCap(class)]}
                 ELSE {}
    IN  IF class = "" THEN fresh
        ELSE {[id |-> i, fresh |-> FALSE, cap |-> bufs[i].cap] :
                 i \in {k \in 1..Len(bufs) : pools[class][k] > 0}} \cup fresh

\* the state of buffers, pools and holders after holder h took outcome o of Get(size)
Taken(h, size, o) ==
    LET b2 == IF o.fresh THEN Append(bufs, [cap |-> o.cap, len |-> 0]) ELSE bufs
    IN  [bufs |-> b2,
         pools |-> IF o.fresh THEN pools
                   ELSE [pools EXCEPT ![ClassOf(size)][o.id] = @ - 1],
         holders |-> [holders EXCEPT ![o.id] = @ \cup {h}],
         lastGet |-> [called |-> TRUE, size |-> size, id |-> o.id,
                      cap |-> b2[o.id].cap, len |-> b2[o.id].len]]

\* Put: the buffer is cut to length 0 and stored in the class of its capacity,
\* unless that is above 1 MiB
Put(b, ps, id) ==
    LET class == ClassOf(b[id].cap)
    IN  [bufs |-> [b EXCEPT ![id].len = 0],
         pools |-> IF class = "" THEN ps ELSE [ps EXCEPT ![class][id] = @ + 1]]

Holds(h) == {i \in 1..Len(bufs) : h \in holders[i]}

\* BufferPool.Get(size) called by a client
BufGet(h, size) ==
    /\ Holds(h) = {}
    /\ \E o \in GetOutcomes(size) : \E t \in {Taken(h, size, o)} :
          /\ bufs' = t.bufs
          /\ pools' = t.pools
          /\ holders' = t.holders
          /\ lastGet' = t.lastGet
    /\ poolOps' = poolOps + 1
    /\ UNCHANGED <<scanner, reader, resolved, transVars, svcVars>>
    /\ UNCHANGED <<recVars, mgrVars, wrkVars>>

\* the holder of a buffer appends to it
BufWrite(h) ==
    /\ \E id \in Holds(h) :
          /\ bufs[id].len = 0
          /\ bufs' = [bufs EXCEPT ![id].len = 1]
    /\ UNCHANGED <<pools, holders, lastGet, scanner, reader, poolOps, resolved, transVars, svcVars>>
    /\ UNCHANGED <<recVars, mgrVars, wrkVars>>

\* BufferPool.Put(buf) by the client that got buf from the pool
BufPut(h) ==
    /\ \E id \in Holds(h) : \E p \in {Put(bufs, pools, id)} :
          /\ bufs' = p.bufs
          /\ pools' = p.pools
          /\ holders' = [holders EXCEPT ![id] = @ \ {h}]
    /\ poolOps' = poolOps + 1
    /\ UNCHANGED <<lastGet, scanner, reader, resolved, transVars, svcVars>>
    /\ UNCHANGED <<recVars, mgrVars, wrkVars>>

\* BufferPool.Put(buf) with a buffer the caller made: make([]byte, len, cap)
BufPutMade(cap, len) ==
    /\ Len(bufs) < MaxBufs
    /\ \E p \in {Put(Append(bufs, [cap |-> cap, len |-> len]), pools, Len(bufs) + 1)} :
          /\ bufs' = p.bufs
          /\ pools' = p.pools
    /\ poolOps' = poolOps + 1
    /\ UNCHANGED <<holders, lastGet, scanner, reader, resolved, transVars, svcVars>>
    /\ UNCHANGED <<recVars, mgrVars, wrkVars>>

\* NewLineScanner: the reader is registered with the idle watcher and the
\* scanner takes a pooled buffer of cfg.BufferSize
NewLineScanner ==
    /\ scanner.state = "none"
    /\ \E o \in GetOutcomes(DefaultBufferSize) :
       \E t \in {Taken("scanner", DefaultBufferSize, o)} :
          /\ bufs' = t.bufs
          /\ pools' = t.pools
          /\ holders' = t.holders
          /\ lastGet' = t.lastGet
          /\ scanner' = [NoScanner EXCEPT !.state = "open", !.buf = o.id]
    /\ poolOps' = poolOps + 1
    /\ UNCHANGED <<reader, resolved, transVars, svcVars>>
    /\ UNCHANGED <<recVars, mgrVars, wrkVars>>

\* r.closeOnce of the reader: done and body.Close run on the first call only
CloseOnce(s) ==
    IF ~s.closed
    THEN [s EXCEPT !.closed = TRUE, !.doneCalls = @ + 1, !.bodyCloses = @ + 1]
    ELSE s

\* LineScanner.Close: PutBuffer(s.buf), then s.reader.Close()
LineScannerClose ==
    /\ scanner.state = "open"
    /\ \E p \in {Put(bufs, pools, scanner.buf)} :
          /\ bufs' = p.bufs
          /\ pools' = p.pools
    /\ holders' = [holders EXCEPT ![scanner.buf] = @ \ {"scanner"}]
    /\ scanner' = [CloseOnce(scanner) EXCEPT !.closes = @ + 1, !.puts = @ + 1]
    /\ poolOps' = poolOps + 1
    /\ UNCHANGED <<lastGet, reader, resolved, transVars, svcVars>>
    /\ UNCHANGED <<recVars, mgrVars, wrkVars>>

\* the request context of the reader is cancelled
ReaderCtxCancel ==
    /\ scanner.state = "open"
    /\ ~reader.ctxDone
    /\ reader' = [reader EXCEPT !.ctxDone = TRUE]
    /\ UNCHANGED <<bufs, pools, holders, lastGet, scanner, poolOps, resolved, transVars, svcVars>>
    /\ UNCHANGED <<recVars, mgrVars, wrkVars>>

\* what the body's Read may return: bytes, nothing, the end of the stream
BodyReads == {[n |-> 3, err |-> "nil"], [n |-> 0, err |-> "nil"],
              [n |-> 2, err |-> "EOF"], [n |-> 0, err |-> "EOF"]}

\* Read calling touch after every body read
ReadOutcomeAlwaysTouch(ctxDone, body) ==
    IF ctxDone
    THEN [called |-> TRUE, ctxWasDone |-> TRUE, n |-> 0, err |-> "ctx",
          bodyReads |-> 0, touches |-> 0]
    ELSE [called |-> TRUE, ctxWasDone |-> FALSE, n |-> body.n, err |-> body.err,
          bodyReads |-> 1, touches |-> 1]

\* OptimizedStreamReader.Read: the context check, then one body read and touch
ReadOutcome(ctxDone, body) ==
    IF ctxDone
    THEN [called |-> TRUE, ctxWasDone |-> TRUE, n |-> 0, err |-> "ctx",
          bodyReads |-> 0, touches |-> 0]
    ELSE [called |-> TRUE, ctxWasDone |-> FALSE, n |-> body.n, err |-> body.err,
          bodyReads |-> 1, touches |-> IF body.n > 0 THEN 1 ELSE 0]

\* OptimizedStreamReader.Read called (by the scanner or its user)
ReaderRead ==
    /\ scanner.state = "open"
    /\ \E body \in BodyReads : \E out \in {ReadOutcome(reader.ctxDone, body)} :
          reader' = [reader EXCEPT !.reads = @ + 1, !.touches = @ + out.touches,
                                   !.last = out]
    /\ poolOps' = poolOps + 1
    /\ UNCHANGED <<bufs, pools, holders, lastGet, scanner, resolved, transVars, svcVars>>
    /\ UNCHANGED <<recVars, mgrVars, wrkVars>>

\* the buffer pool used by its clients
PoolGetStep == poolOps < MaxPoolOps /\ \E h \in Clients : \E size \in GetSizes : BufGet(h, size)
PoolWriteStep == \E h \in Clients : BufWrite(h)
PoolPutStep == poolOps < MaxPoolOps /\ \E h \in Clients : BufPut(h)
PoolPutMadeStep ==
    poolOps < MaxPoolOps /\ \E cap \in PutCaps : \E len \in {0, 1} : BufPutMade(cap, len)

PoolNext == PoolGetStep \/ PoolWriteStep \/ PoolPutStep \/ PoolPutMadeStep

\* a line scanner, its reader, and other clients of the default buffer pool
ScanNewStep == poolOps < MaxStreamOps /\ NewLineScanner
ScanCloseStep == poolOps < MaxStreamOps /\ LineScannerClose
ScanReadStep == poolOps < MaxStreamOps /\ ReaderRead
ScanGetStep == poolOps < MaxStreamOps /\ \E h \in Clients : BufGet(h, DefaultBufferSize)

ScanNext == ScanNewStep \/ ScanCloseStep \/ ScanReadStep \/ ScanGetStep \/ ReaderCtxCancel

(***************************************************************************)
(* registry.ResolveAllProviders                                            *)
(***************************************************************************)
MaxAvailable == 3

Member(p, pri) == [Provider |-> p, Priority |-> pri]

\* var ModelFamilies: canonical id -> members in source order
ModelFamilies ==
    [id \in {"claude-sonnet-4-5", "claude-sonnet-4-5-thinking", "claude-opus-4-5",
             "claude-opus-4-5-thinking", "claude-sonnet-4", "claude-3-7-sonnet",
             "gpt-5.1-codex-max"} |->
       CASE id = "claude-sonnet-4-5" ->
              <<Member("kiro", 1), Member("antigravity", 1), Member("claude", 2)>>
         [] id = "claude-sonnet-4-5-thinking" ->
              <<Member("claude", 1), Member("antigravity", 2)>>
         [] id = "claude-opus-4-5" -> <<Member("claude", 1), Member("kiro", 2)>>
         [] id = "claude-opus-4-5-thinking" ->
              <<Member("antigravity", 1), Member("claude", 2)>>
         [] id = "claude-sonnet-4" -> <<Member("kiro", 1), Member("claude", 2)>>
         [] id = "claude-3-7-sonnet" -> <<Member("kiro", 1), Member("claude", 2)>>
         [] OTHER -> <<Member("github-copilot", 1), Member("openai", 2)>>]

\* the ids ResolveAllProviders is called with: families and one id that is none
ResolveIds == {"claude-sonnet-4-5", "claude-opus-4-5", "gpt-5.1-codex-max", "gpt-4o"}

\* the provider names that occur in availableProviders
ProviderNames == {"kiro", "antigravity", "claude", "openai", "gemini"}

AvailableLists == UNION {[1..n -> ProviderNames] : n \in 0..MaxAvailable}

NotResolved == [called |-> FALSE, id |-> "", available |-> <<>>, result |-> <<>>, ok |-> FALSE]

ResolveInit == resolved = NotResolved

\* the loop over family: available members are appended to the group of their
\* priority, a new group being appended when the priority is met first
RECURSIVE BuildGroups(_, _, _, _)
BuildGroups(family, availableSet, i, groups) ==
    IF i > Len(family) THEN groups
    ELSE IF family[i].Provider \notin availableSet
    THEN BuildGroups(family, availableSet, i + 1, groups)
    ELSE LET at == {k \in 1..Len(groups) : groups[k].pri = family[i].Priority}
         IN  IF at # {}
             THEN BuildGroups(family, availableSet, i + 1,
                      [k \in 1..Len(groups) |->
                          IF k \in at
                          THEN [groups[k] EXCEPT !.mem = Append(@, family[i].Provider)]
                          ELSE groups[k]])
             ELSE BuildGroups(family, availableSet, i + 1,
                      Append(groups, [pri |-> family[i].Priority,
                                      mem |-> <<family[i].Provider>>]))

\* g inserted into the groups sorted by ascending pri
RECURSIVE InsertGroup(_, _)
InsertGroup(sorted, g) ==
    IF sorted = <<>> THEN <<g>>
    ELSE IF g.pri < Head(sorted).pri THEN <<g>> \o sorted
    ELSE <<Head(sorted)>> \o InsertGroup(Tail(sorted), g)

\* sort.Slice(groups, pri ascending); the priorities of the groups are distinct
RECURSIVE SortGroups(_)
SortGroups(groups) ==
    IF groups = <<>> THEN <<>>
    ELSE InsertGroup(SortGroups(Tail(groups)), Head(groups))

\* a group that is never shuffled
ShufflesNone(mem) == {mem}

\* rand.Shuffle of a group of more than one member: any order of the members
Shuffles(mem) ==
    IF Len(mem) > 1
    THEN {[i \in 1..Len(mem) |-> mem[f[i]]] :
             f \in {g \in [1..Len(mem) -> 1..Len(mem)] :
                       \A a, b \in 1..Len(mem) : a # b => g[a] # g[b]}}
    ELSE {mem}

\* result = append(result, g.mem...) over the sorted groups, each shuffled
RECURSIVE AppendGroups(_)
AppendGroups(groups) ==
    IF groups = <<>> THEN {<<>>}
    ELSE {m \o rest : m \in Shuffles(Head(groups).mem), rest \in AppendGroups(Tail(groups))}

NotFound == [result |-> <<>>, ok |-> FALSE]

\* ResolveAllProviders: what the call may return (result nil is <<>> with ok false)
ResolveAllProviders(canonicalID, availableProviders) ==
    IF canonicalID \notin DOMAIN ModelFamilies THEN {NotFound}
    ELSE LET family == ModelFamilies[canonicalID]
         IN  IF Len(availableProviders) = 1
             THEN IF \E i \in 1..Len(family) : family[i].Provider = availableProviders[1]
                  THEN {[result |-> <<availableProviders[1]>>, ok |-> TRUE]}
                  ELSE {NotFound}
             ELSE LET availableSet == {availableProviders[i] :
                                          i \in 1..Len(availableProviders)}
                      groups == BuildGroups(family, availableSet, 1, <<>>)
                  IN  IF Len(groups) = 0 THEN {NotFound}
                      ELSE {[result |-> r, ok |-> TRUE] :
                               r \in AppendGroups(SortGroups(groups))}

\* a call of ResolveAllProviders (the function keeps no state: one call per run)
ResolveCall ==
    /\ ~resolved.called
    /\ \E id \in ResolveIds : \E available \in AvailableLists :
       \E out \in ResolveAllProviders(id, available) :
          resolved' = [called |-> TRUE, id |-> id, available |-> available,
                       result |-> out.result, ok |-> out.ok]
    /\ UNCHANGED <<streamVars, transVars, svcVars>>
    /\ UNCHANGED <<recVars, mgrVars, wrkVars>>

ResolveNext == ResolveCall

(***************************************************************************)
(* ir.toClaudeToolID                                                       *)
(*                                                                         *)
(* An id is the sequence of its bytes, each a one-character string.        *)
(***************************************************************************)
MaxIdTail == 1

tooluPrefix == <<"t", "o", "o", "l", "u", "_">>
callPrefix == <<"c", "a", "l", "l", "_">>

\* func toClaudeToolID(id string) string
toClaudeToolID(id) ==
    IF /\ Len(id) > 6
       /\ id[1] = "t" /\ id[2] = "o" /\ id[3] = "o" /\ id[4] = "l"
       /\ id[5] = "u" /\ id[6] = "_"
    THEN id
    ELSE IF /\ Len(id) > 5
            /\ id[1] = "c" /\ id[2] = "a" /\ id[3] = "l" /\ id[4] = "l"
            /\ id[5] = "_"
         THEN <<"t", "o", "o", "l", "u", "_">> \o SubSeq(id, 6, Len(id))
         ELSE <<"t", "o", "o", "l", "u", "_">> \o id

\* the ids toClaudeToolID is called with: up to two heads (a prefix, a near
\* miss of one, or nothing) followed by a short tail
IdHeads == {<<>>, tooluPrefix, callPrefix,
            <<"t", "o", "o", "l", "u">>, <<"c", "a", "l", "l">>,
            <<"t", "o", "o", "l", "_">>}
IdTails == UNION {[1..n -> {"a", "b"}] : n \in 0..MaxIdTail}
ToolIds == {h1 \o h2 \o t : h1 \in IdHeads, h2 \in IdHeads, t \in IdTails}

NoIdCall == [called |-> FALSE, id |-> <<>>, out |-> <<>>]

ToolIdInit == toolId = [prev |-> NoIdCall, last |-> NoIdCall]

\* a call of toClaudeToolID; the state keeps the latest two calls
ToolIdCall ==
    /\ ~toolId.prev.called
    /\ \E id \in ToolIds :
          toolId' = [prev |-> toolId.last,
                     last |-> [called |-> TRUE, id |-> id, out |-> toClaudeToolID(id)]]
    /\ UNCHANGED <<prep, built, xlate>>
    /\ UNCHANGED <<recVars, mgrVars, wrkVars, streamVars, resolved, svcVars>>

ToolIdNext == ToolIdCall

(***************************************************************************)
(* translator/preprocess: the request, the model registry                  *)
(*                                                                         *)
(* A pointer field is a record [set, v]: set = FALSE is nil.  A model name *)
(* is the sequence of its parts, so that appending "-thinking" and testing *)
(* for that suffix are operations on the name.                             *)
(***************************************************************************)
Nil == [set |-> FALSE, v |-> 0]
Ptr(v) == [set |-> TRUE, v |-> v]

\* ir.ThinkingConfig behind req.Thinking (set = FALSE: req.Thinking == nil)
NilThinking == [set |-> FALSE, ThinkingBudget |-> Nil, IncludeThoughts |-> FALSE]
ThinkingConfig(budget, include) ==
    [set |-> TRUE, ThinkingBudget |-> budget, IncludeThoughts |-> include]

\* the fields of ir.UnifiedChatRequest the passes read and write
Request(model, maxTokens, candidateCount, thinking) ==
    [Model |-> model, MaxTokens |-> maxTokens, CandidateCount |-> candidateCount,
     Thinking |-> thinking]

\* registry.ThinkingSupport behind info.Thinking (set = FALSE: nil)
NilThinkingSupport ==
    [set |-> FALSE, Min |-> 0, Max |-> 0, ZeroAllowed |-> FALSE, DynamicAllowed |-> FALSE]
ThinkingSupport(min, max, zeroAllowed, dynamicAllowed) ==
    [set |-> TRUE, Min |-> min, Max |-> max, ZeroAllowed |-> zeroAllowed,
     DynamicAllowed |-> dynamicAllowed]

\* *registry.ModelInfo (known = FALSE: nil)
NilInfo == [known |-> FALSE, OutputTokenLimit |-> 0, MaxCompletionTokens |-> 0,
            Thinking |-> NilThinkingSupport]
ModelInfo(outputTokenLimit, maxCompletionTokens, thinking) ==
    [known |-> TRUE, OutputTokenLimit |-> outputTokenLimit,
     MaxCompletionTokens |-> maxCompletionTokens, Thinking |-> thinking]

\* registry.GetGlobalRegistry().GetModelInfo(model): the registry is a function
\* from the names of its models to their ModelInfo
GetModelInfo(registry, model) ==
    IF model \in DOMAIN registry THEN registry[model] ELSE NilInfo

\* ir.IsClaudeModel
IsClaudeModel(model) ==
    Len(model) > 0 /\ model[1] \in {"claude-sonnet-4-5", "claude-opus-4-5"}

\* strings.HasSuffix(model, "-thinking")
HasThinkingSuffix(model) == Len(model) > 1 /\ model[Len(model)] = "-thinking"

\* ir.ClaudeDefaultMaxTokens
ClaudeDefaultMaxTokens == 32000

(***************************************************************************)
(* preprocess.normalizeThinkingBudget and util.NormalizeThinkingBudget     *)
(***************************************************************************)
\* the three steps of normalizeThinkingBudget on the local budget
BudgetDynamicMin(budget, t) ==
    IF budget = -1 /\ ~t.DynamicAllowed THEN t.Min ELSE budget

BudgetDynamic(budget, t) ==
    IF budget = -1 /\ ~t.DynamicAllowed THEN (t.Min + t.Max) \div 2 ELSE budget

BudgetZero(budget, t) ==
    IF budget = 0 /\ ~t.ZeroAllowed THEN t.Min ELSE budget

BudgetClamp(budget, t) ==
    IF budget > 0
    THEN LET low == IF budget < t.Min THEN t.Min ELSE budget
         IN  IF low > t.Max THEN t.Max ELSE low
    ELSE budget

\* func normalizeThinkingBudget(req, info)
normalizeThinkingBudget(req, info) ==
    IF ~req.Thinking.set \/ ~req.Thinking.ThinkingBudget.set THEN req
    ELSE IF ~info.known \/ ~info.Thinking.set THEN req
    ELSE LET t == info.Thinking
             budget == BudgetClamp(BudgetZero(BudgetDynamic(
                           req.Thinking.ThinkingBudget.v, t), t), t)
         IN  [req EXCEPT !.Thinking.ThinkingBudget = Ptr(budget)]

\* func thinkingRangeFromRegistry(model): the ModelInfo's Thinking, if any
thinkingRangeFromRegistry(registry, model) ==
    IF model = <<>> THEN NilThinkingSupport
    ELSE GetModelInfo(registry, model).Thinking

\* func NormalizeThinkingBudget(model string, budget int) int
NormalizeThinkingBudget(registry, model, budget) ==
    LET t == thinkingRangeFromRegistry(registry, model)
        mid == (t.Min + t.Max) \div 2
    IN  IF budget = -1
        THEN IF t.set
             THEN IF t.DynamicAllowed THEN -1
                  ELSE IF mid <= 0 /\ t.ZeroAllowed THEN 0
                  ELSE IF mid <= 0 THEN t.Min
                  ELSE mid
             ELSE -1
        ELSE IF t.set
             THEN IF budget = 0 THEN (IF t.ZeroAllowed THEN 0 ELSE t.Min)
                  ELSE IF budget < t.Min THEN t.Min
                  ELSE IF budget > t.Max THEN t.Max
                  ELSE budget
             ELSE budget

(***************************************************************************)
(* preprocess: the limits pass, thinking normalisation, provider defaults  *)
(***************************************************************************)
maxCandidates == 8
promotedBudget == 1024

\* func clampMaxTokens(req, info)
clampMaxTokens(req, info) ==
    IF ~req.MaxTokens.set THEN req
    ELSE IF ~info.known THEN req
    ELSE LET limit == IF info.OutputTokenLimit = 0 THEN info.MaxCompletionTokens
                      ELSE info.OutputTokenLimit
         IN  IF limit > 0 /\ req.MaxTokens.v > limit
             THEN [req EXCEPT !.MaxTokens = Ptr(limit)]
             ELSE req

clampCandidateCountNoUpper(req, info) ==
    IF ~req.CandidateCount.set THEN req
    ELSE IF req.CandidateCount.v < 1 THEN [req EXCEPT !.CandidateCount = Ptr(1)]
    ELSE req

\* func clampCandidateCount(req, info)
clampCandidateCount(req, info) ==
    IF ~req.CandidateCount.set THEN req
    ELSE LET low == IF req.CandidateCount.v < 1 THEN 1 ELSE req.CandidateCount.v
             count == IF low > maxCandidates THEN maxCandidates ELSE low
         IN  [req EXCEPT !.CandidateCount = Ptr(count)]

\* func applyLimits(req, info)
applyLimits(req, info) == clampCandidateCount(clampMaxTokens(req, info), info)

promoteAlwaysDefaultBudget(registry, req, info) ==
    IF ~req.Thinking.set THEN req
    ELSE IF ~IsClaudeModel(req.Model) THEN req
    ELSE IF HasThinkingSuffix(req.Model)
         THEN [req EXCEPT !.Thinking.ThinkingBudget = Ptr(promotedBudget),
                          !.Thinking.IncludeThoughts = TRUE]
    ELSE IF GetModelInfo(registry, Append(req.Model, "-thinking")).known
         THEN [req EXCEPT !.Model = Append(req.Model, "-thinking")]
    ELSE req

\* func promoteToThinkingModel(req, info): the request it leaves behind (the
\* boolean it returns is not used by its caller)
promoteToThinkingModel(registry, req, info) ==
    IF ~req.Thinking.set THEN req
    ELSE IF ~IsClaudeModel(req.Model) THEN req
    ELSE IF HasThinkingSuffix(req.Model)
         THEN [req EXCEPT
                 !.Thinking.ThinkingBudget =
                     IF req.Thinking.ThinkingBudget.set THEN req.Thinking.ThinkingBudget
                     ELSE Ptr(promotedBudget),
                 !.Thinking.IncludeThoughts = TRUE]
    ELSE IF GetModelInfo(registry, Append(req.Model, "-thinking")).known
         THEN [req EXCEPT !.Model = Append(req.Model, "-thinking")]
    ELSE req

\* func applyThinkingNormalization(req, info): info is the caller's, also after
\* the promotion changed req.Model
applyThinkingNormalization(registry, req, info) ==
    normalizeThinkingBudget(promoteToThinkingModel(registry, req, info), info)

\* func applyClaudeDefaults(req); ir.CleanToolsForAntigravityClaude rewrites
\* req.Tools, which is none of the fields kept here
applyClaudeDefaults(req) ==
    IF ~IsClaudeModel(req.Model) THEN req
    ELSE IF ~req.MaxTokens.set \/ req.MaxTokens.v = 0
         THEN [req EXCEPT !.MaxTokens = Ptr(ClaudeDefaultMaxTokens)]
    ELSE req

\* func applyProviderDefaults(req, info)
applyProviderDefaults(req, info) == applyClaudeDefaults(req)

\* the entry point of the package: the ModelInfo of the requested model is
\* looked up once, then the three passes run in order
Preprocess(registry, req) ==
    LET info == GetModelInfo(registry, req.Model)
    IN  applyProviderDefaults(
            applyThinkingNormalization(registry, applyLimits(req, info), info), info)

(***************************************************************************)
(* preprocess: the requests and registries the passes are run on           *)
(***************************************************************************)
ThinkingName(model) == Append(model, "-thinking")

PrepModels == {<<"claude-sonnet-4-5">>, <<"claude-sonnet-4-5", "-thinking">>,
               <<"claude-opus-4-5">>, <<"gemini-2.5-flash">>}

\* the edges of the thinking ranges, and the ranges: Min <= Max
RangeEdges == {0, 1, 1024, 1500, 4096}
RangePairs == {p \in RangeEdges \X RangeEdges : p[1] <= p[2]}
ThinkingSupports ==
    {ThinkingSupport(p[1], p[2], z, d) :
        p \in RangePairs, z \in BOOLEAN, d \in BOOLEAN}

\* the budgets a request asks for
Budgets == {-5, -1, 0, 1, 500, 1024, 2000, 5000}

BudgetThinkings ==
    {NilThinking, ThinkingConfig(Nil, FALSE)}
        \cup {ThinkingConfig(Ptr(b), TRUE) : b \in Budgets}

BudgetInfos ==
    {NilInfo, ModelInfo(0, 0, NilThinkingSupport)}
        \cup {ModelInfo(0, 0, t) : t \in ThinkingSupports}

\* the limits pass: max_tokens, candidate_count and the model's limits
LimitMaxTokens == {Nil, Ptr(0), Ptr(5), Ptr(6), Ptr(7), Ptr(8), Ptr(9), Ptr(100)}
LimitCandidateCounts == {Nil, Ptr(-1), Ptr(0), Ptr(1), Ptr(3), Ptr(8), Ptr(9), Ptr(100)}
LimitInfos ==
    {NilInfo} \cup {ModelInfo(o, c, NilThinkingSupport) : o \in {0, 8}, c \in {0, 6}}

\* the registry entries of a requested model and of its -thinking variant
InfoPool ==
    {ModelInfo(8, 0, NilThinkingSupport),
     ModelInfo(8, 0, ThinkingSupport(1024, 4096, FALSE, FALSE)),
     ModelInfo(6, 0, ThinkingSupport(1024, 1500, FALSE, FALSE)),
     ModelInfo(0, 6, ThinkingSupport(0, 1500, TRUE, TRUE))}

Registries(model) ==
    UNION {[names -> InfoPool] : names \in SUBSET {model, ThinkingName(model)}}

ThinkingThinkings ==
    {NilThinking, ThinkingConfig(Nil, FALSE), ThinkingConfig(Nil, TRUE)}
        \cup {ThinkingConfig(Ptr(b), inc) : b \in Budgets, inc \in BOOLEAN}

PreprocessThinkings ==
    {NilThinking, ThinkingConfig(Nil, FALSE)}
        \cup {ThinkingConfig(Ptr(b), TRUE) : b \in {-1, 0, 2000}}

NoRequest == Request(<<>>, Nil, Nil, NilThinking)

NoRegistry == [names \in {} |-> NilInfo]

PrepIdle == [pass |-> "none", registry |-> NoRegistry, info |-> NilInfo,
             before |-> NoRequest, promoted |-> NoRequest, after |-> NoRequest,
             again |-> NoRequest, util |-> Nil]

PrepInit == prep = PrepIdle

UnchangedByPrep ==
    /\ UNCHANGED <<toolId, built, xlate>>
    /\ UNCHANGED <<recVars, mgrVars, wrkVars, streamVars, resolved, svcVars>>

\* a call of normalizeThinkingBudget, and of util.NormalizeThinkingBudget with
\* the same model and budget
BudgetCall ==
    /\ prep.pass = "none"
    /\ \E model \in {<<"claude-sonnet-4-5", "-thinking">>, <<"gemini-2.5-flash">>} :
       \E thinking \in BudgetThinkings : \E info \in BudgetInfos :
          LET req == Request(model, Nil, Nil, thinking)
              registry == IF info.known THEN [names \in {model} |-> info]
                          ELSE NoRegistry
          IN  prep' = [PrepIdle EXCEPT
                         !.pass = "budget", !.registry = registry, !.info = info,
                         !.before = req,
                         !.after = normalizeThinkingBudget(req, info),
                         !.util = IF thinking.ThinkingBudget.set
                                  THEN Ptr(NormalizeThinkingBudget(registry, model,
                                               thinking.ThinkingBudget.v))
                                  ELSE Nil]
    /\ UnchangedByPrep

\* a call of applyLimits
LimitsCall ==
    /\ prep.pass = "none"
    /\ \E maxTokens \in LimitMaxTokens : \E count \in LimitCandidateCounts :
       \E info \in LimitInfos :
          LET req == Request(<<"gemini-2.5-flash">>, maxTokens, count, NilThinking)
          IN  prep' = [PrepIdle EXCEPT
                         !.pass = "limits", !.info = info, !.before = req,
                         !.after = applyLimits(req, info)]
    /\ UnchangedByPrep

\* a call of applyThinkingNormalization with the ModelInfo of the requested model
ThinkingCall ==
    /\ prep.pass = "none"
    /\ \E model \in PrepModels : \E thinking \in ThinkingThinkings :
       \E registry \in Registries(model) :
          LET req == Request(model, Nil, Nil, thinking)
              info == GetModelInfo(registry, model)
          IN  prep' = [PrepIdle EXCEPT
                         !.pass = "thinking", !.registry = registry, !.info = info,
                         !.before = req,
                         !.promoted = promoteToThinkingModel(registry, req, info),
                         !.after = applyThinkingNormalization(registry, req, info)]
    /\ UnchangedByPrep

\* the request of a client is preprocessed
PreprocessCall ==
    /\ prep.pass = "none"
    /\ \E model \in PrepModels : \E thinking \in PreprocessThinkings :
       \E maxTokens \in {Nil, Ptr(0), Ptr(5), Ptr(9)} :
       \E count \in {Nil, Ptr(0), Ptr(100)} :
       \E registry \in Registries(model) :
          LET req == Request(model, maxTokens, count, thinking)
          IN  prep' = [PrepIdle EXCEPT
                         !.pass = "once", !.registry = registry,
                         !.info = GetModelInfo(registry, model),
                         !.before = req,
                         !.after = Preprocess(registry, req)]
    /\ UnchangedByPrep

\* the preprocessed request is preprocessed again
PreprocessAgain ==
    /\ prep.pass = "once"
    /\ prep' = [prep EXCEPT !.pass = "twice",
                            !.again = Preprocess(prep.registry, prep.after)]
    /\ UnchangedByPrep

BudgetNext == BudgetCall
LimitsNext == LimitsCall
ThinkingNext == ThinkingCall
PreprocessNext == PreprocessCall \/ PreprocessAgain

(***************************************************************************)
(* ir.ResponseBuilder                                                      *)
(***************************************************************************)
MaxParts == 3
MaxToolCalls == 2

\* ir.ContentPart: the type and the fields the Claude builder reads
ContentPart(type, text, reasoning) == [Type |-> type, Text |-> text, Reasoning |-> reasoning]

ContentParts ==
    {ContentPart("reasoning", "", r) : r \in {"", "x", "y"}}
        \cup {ContentPart("text", t, "") : t \in {"", "x", "y"}}
        \cup {ContentPart("image", "", "")}

\* ir.ToolCall
ToolCall(id, name, args) == [ID |-> id, Name |-> name, Args |-> args]

BuilderToolCalls ==
    {ToolCall(callPrefix \o <<"a">>, "search", "{\"q\":1}"),
     ToolCall(tooluPrefix \o <<"b">>, "read", "")}

\* ir.Message
Message(content, toolCalls) == [Role |-> "assistant", Content |-> content, ToolCalls |-> toolCalls]

\* the contents and the tool calls of the last message
BuilderContents == UNION {[1..n -> ContentParts] : n \in 0..MaxParts}

BuilderToolCallLists == UNION {[1..n -> BuilderToolCalls] : n \in 0..MaxToolCalls}

\* an earlier message of the conversation, with text and a tool call
EarlierMessage ==
    Message(<<ContentPart("text", "earlier", "")>>,
            <<ToolCall(callPrefix \o <<"e">>, "earlier", "")>>)

\* func (b *ResponseBuilder) GetLastMessage(): [ok, msg], ok = FALSE for nil
GetLastMessage(messages) ==
    IF Len(messages) = 0 THEN [ok |-> FALSE, msg |-> Message(<<>>, <<>>)]
    ELSE [ok |-> TRUE, msg |-> messages[Len(messages)]]

\* func (b *ResponseBuilder) GetToolCalls()
GetToolCalls(messages) ==
    IF GetLastMessage(messages).ok THEN GetLastMessage(messages).msg.ToolCalls ELSE <<>>

\* func (b *ResponseBuilder) DetermineFinishReason()
DetermineFinishReason(messages) ==
    IF Len(GetToolCalls(messages)) > 0 THEN "tool_calls" ELSE "stop"

\* json.Unmarshal of tool-call arguments: [ok, value], a JSON object being
\* the set of its <<key, value>> members
Unmarshal(args) ==
    IF args = "{\"q\":1}" THEN [ok |-> TRUE, value |-> {<<"q", 1>>}]
    ELSE IF args = "{}" THEN [ok |-> TRUE, value |-> {}]
    ELSE [ok |-> FALSE, value |-> {}]

\* the loop "Add reasoning/thinking content first"
RECURSIVE AddReasoning(_, _, _)
AddReasoning(content, i, parts) ==
    IF i > Len(content) THEN parts
    ELSE AddReasoning(content, i + 1,
            IF content[i].Type = "reasoning" /\ content[i].Reasoning # ""
            THEN Append(parts, [type |-> "thinking", thinking |-> content[i].Reasoning])
            ELSE parts)

\* the loop "Add text content"
RECURSIVE AddText(_, _, _)
AddText(content, i, parts) ==
    IF i > Len(content) THEN parts
    ELSE AddText(content, i + 1,
            IF content[i].Type = "text" /\ content[i].Text # ""
            THEN Append(parts, [type |-> "text", text |-> content[i].Text])
            ELSE parts)

\* the body of the loop "Add tool calls": the tool_use block of one call
ToolUse(tc) ==
    [type |-> "tool_use", id |-> toClaudeToolID(tc.ID), name |-> tc.Name,
     input |-> IF tc.Args # "" /\ tc.Args # "{}" /\ Unmarshal(tc.Args).ok
               THEN Unmarshal(tc.Args).value ELSE {}]

RECURSIVE AddToolCalls(_, _, _)
AddToolCalls(toolCalls, i, parts) ==
    IF i > Len(toolCalls) THEN parts
    ELSE AddToolCalls(toolCalls, i + 1, Append(parts, ToolUse(toolCalls[i])))

\* one loop over msg.Content that keeps the original order, as the Gemini
\* builder has it
RECURSIVE AddInOrder(_, _, _)
AddInOrder(content, i, parts) ==
    IF i > Len(content) THEN parts
    ELSE AddInOrder(content, i + 1,
            IF content[i].Type = "reasoning" /\ content[i].Reasoning # ""
            THEN Append(parts, [type |-> "thinking", thinking |-> content[i].Reasoning])
            ELSE IF content[i].Type = "text" /\ content[i].Text # ""
            THEN Append(parts, [type |-> "text", text |-> content[i].Text])
            ELSE parts)

BuildClaudeContentPartsInOrder(messages) ==
    LET last == GetLastMessage(messages)
    IN  IF ~last.ok THEN <<>>
        ELSE AddToolCalls(last.msg.ToolCalls, 1, AddInOrder(last.msg.Content, 1, <<>>))

\* func (b *ResponseBuilder) BuildClaudeContentParts()
BuildClaudeContentParts(messages) ==
    LET last == GetLastMessage(messages)
    IN  IF ~last.ok THEN <<>>
        ELSE AddToolCalls(last.msg.ToolCalls, 1,
                 AddText(last.msg.Content, 1,
                     AddReasoning(last.msg.Content, 1, <<>>)))

NotBuilt == [called |-> FALSE, messages |-> <<>>, parts |-> <<>>, finish |-> ""]

BuiltInit == built = NotBuilt

\* what the builder gives for the messages
Build(messages) ==
    [called |-> TRUE, messages |-> messages,
     parts |-> BuildClaudeContentParts(messages),
     finish |-> DetermineFinishReason(messages)]

\* a response is built from no message, from one message, or from an earlier
\* and a last message (the builder keeps no state of its own: one call per run)
BuilderCall ==
    /\ ~built.called
    /\ \/ built' = Build(<<>>)
       \/ \E content \in BuilderContents : \E toolCalls \in BuilderToolCallLists :
          \E earlier \in {<<>>, <<EarlierMessage>>} :
             built' = Build(earlier \o <<Message(content, toolCalls)>>)
    /\ UNCHANGED <<toolId, prep, xlate>>
    /\ UNCHANGED <<recVars, mgrVars, wrkVars, streamVars, resolved, svcVars>>

BuilderNext == BuilderCall

(***************************************************************************)
(* OpenAI request -> IR -> Gemini request.  The parser and the emitters    *)
(* are not part of the sources at hand; they follow the written            *)
(* specification and the package's test of the translation.                *)
(*                                                                         *)
(* A JSON object is the set of its <<key, value>> members.                 *)
(***************************************************************************)
MaxTopLogprobs == 3
MaxMaxTokens == 5

Absent == [present |-> FALSE, v |-> 0]
Present(v) == [present |-> TRUE, v |-> v]

\* the OpenAI chat requests: model, logprobs, top_logprobs, max_tokens, n
OpenAIRequests ==
    [model : {"gemini-2.5-flash", "gemini-2.5-pro"},
     logprobs : {Absent, Present(TRUE), Present(FALSE)},
     top_logprobs : {Absent} \cup {Present(k) : k \in 0..MaxTopLogprobs},
     max_tokens : {Absent} \cup {Present(n) : n \in 1..MaxMaxTokens}]

FromJSON(field) == IF field.present THEN Ptr(field.v) ELSE Nil

\* to_ir.ParseOpenAIRequest: the fields of ir.UnifiedChatRequest it fills
ParseOpenAIRequest(openai) ==
    [Model |-> openai.model,
     Logprobs |-> FromJSON(openai.logprobs),
     TopLogprobs |-> FromJSON(openai.top_logprobs),
     MaxTokens |-> FromJSON(openai.max_tokens)]

\* the members of generationConfig one knob gives: none for a nil pointer
Knob(key, ptr) == IF ptr.set THEN {<<key, ptr.v>>} ELSE {}

GenerationConfigNoLogprobs(ir) ==
    Knob("maxOutputTokens", ir.MaxTokens)

\* the generationConfig of the emitted request, as the set of its members
GenerationConfig(ir) ==
    Knob("maxOutputTokens", ir.MaxTokens)
        \cup (IF ir.Logprobs.set /\ ir.Logprobs.v
              THEN {<<"responseLogprobs", TRUE>>} \cup Knob("logprobs", ir.TopLogprobs)
              ELSE {})

\* (&GeminiProvider{}).ConvertRequest
GeminiConvertRequest(ir) == [generationConfig |-> GenerationConfig(ir)]

\* (&GeminiCLIProvider{}).ConvertRequest: the Gemini request in an envelope
GeminiCLIConvertRequest(ir) ==
    [model |-> ir.Model, request |-> GeminiConvertRequest(ir)]

NoIR == [Model |-> "", Logprobs |-> Nil, TopLogprobs |-> Nil, MaxTokens |-> Nil]

XlateIdle == [parsed |-> FALSE, openai |-> [model |-> "", logprobs |-> Absent,
                                             top_logprobs |-> Absent, max_tokens |-> Absent],
              ir |-> NoIR,
              gemini |-> Absent, cli |-> Absent]

XlateInit == xlate = XlateIdle

UnchangedByXlate ==
    /\ UNCHANGED <<toolId, prep, built>>
    /\ UNCHANGED <<recVars, mgrVars, wrkVars, streamVars, resolved, svcVars>>

\* an OpenAI request is parsed to the IR
XlateParse ==
    /\ ~xlate.parsed
    /\ \E openai \in OpenAIRequests :
          xlate' = [xlate EXCEPT !.parsed = TRUE, !.openai = openai,
                                 !.ir = ParseOpenAIRequest(openai)]
    /\ UnchangedByXlate

\* the IR is emitted for Gemini
XlateGemini ==
    /\ xlate.parsed /\ ~xlate.gemini.present
    /\ xlate' = [xlate EXCEPT !.gemini = Present(GeminiConvertRequest(xlate.ir))]
    /\ UnchangedByXlate

\* the IR is emitted for the Gemini CLI
XlateGeminiCLI ==
    /\ xlate.parsed /\ ~xlate.cli.present
    /\ xlate' = [xlate EXCEPT !.cli = Present(GeminiCLIConvertRequest(xlate.ir))]
    /\ UnchangedByXlate

XlateNext == XlateParse \/ XlateGemini \/ XlateGeminiCLI

(***************************************************************************)
(* executor: PrewarmAntigravityConnections, prewarmHTTPWithRetry           *)
(*                                                                         *)
(* One goroutine per endpoint runs prewarmHTTPWithRetry; durations are in  *)
(* milliseconds.  prewarmHTTP is one step whose result is the environment's*)
(* (the HEAD request succeeds, fails or runs into its timeout).            *)
(***************************************************************************)
MaxAttempts == 3

initialBackoff == 100

antigravityEndpoints == {"cloudcode-pa", "oauth2"}

\* a goroutine that has not been started
PwNone == [pc |-> "none", maxAttempts |-> 0, attempt |-> 0, backoff |-> 0,
           tries |-> 0, ok |-> FALSE, waits |-> <<>>, woken |-> "none"]

PwInit ==
    /\ pwMain = "idle"
    /\ pwCtxDone = FALSE
    /\ pwRun = [e \in antigravityEndpoints |-> PwNone]

\* the loop condition attempt < maxAttempts, and the select in front of a retry
PwLoop(g) ==
    IF g.attempt < g.maxAttempts
    THEN [g EXCEPT !.pc = IF g.attempt > 0 THEN "select" ELSE "http"]
    ELSE [g EXCEPT !.pc = "done"]

\* prewarmHTTPWithRetry is entered: backoff := 100 ms, attempt := 0
prewarmHTTPWithRetry(maxAttempts) ==
    PwLoop([PwNone EXCEPT !.maxAttempts = maxAttempts, !.backoff = initialBackoff])

\* PrewarmAntigravityConnections up to wg.Wait(): a goroutine per endpoint
PrewarmAntigravityConnections(maxAttempts) ==
    /\ pwMain = "idle"
    /\ pwMain' = "wait"
    /\ pwRun' = [e \in antigravityEndpoints |-> prewarmHTTPWithRetry(maxAttempts)]
    /\ UNCHANGED pwCtxDone

\* the context is cancelled (or its deadline passes)
PwCancel ==
    /\ pwMain # "returned"
    /\ ~pwCtxDone
    /\ pwCtxDone' = TRUE
    /\ UNCHANGED <<pwMain, pwRun>>

\* if prewarmHTTP(ctx, baseURL, timeout) { return }, else attempt++
prewarmHTTP(e, ok) ==
    /\ pwRun[e].pc = "http"
    /\ pwRun' = [pwRun EXCEPT ![e] =
                    IF ok
                    THEN [@ EXCEPT !.pc = "done", !.ok = TRUE, !.tries = @ + 1]
                    ELSE PwLoop([@ EXCEPT !.attempt = @ + 1, !.tries = @ + 1])]
    /\ UNCHANGED <<pwMain, pwCtxDone>>

\* select: case <-ctx.Done(): return
PwSelectDone(e) ==
    /\ pwRun[e].pc = "select"
    /\ pwCtxDone
    /\ pwRun' = [pwRun EXCEPT ![e] = [@ EXCEPT !.pc = "done", !.woken = "ctx"]]
    /\ UNCHANGED <<pwMain, pwCtxDone>>

\* a backoff select whose timer leaves the backoff as it is
PwSelectAfterSame(e) ==
    /\ pwRun[e].pc = "select"
    /\ ~pwCtxDone
    /\ pwRun' = [pwRun EXCEPT ![e] =
                    [@ EXCEPT !.pc = "http", !.waits = Append(@, pwRun[e].backoff)]]
    /\ UNCHANGED <<pwMain, pwCtxDone>>

\* select: case <-time.After(backoff): backoff *= 2 (the timer was started on
\* entering the select, so it fires only while ctx.Done() is not yet closed)
PwSelectAfter(e) ==
    /\ pwRun[e].pc = "select"
    /\ ~pwCtxDone
    /\ pwRun' = [pwRun EXCEPT ![e] =
                    [@ EXCEPT !.pc = "http", !.waits = Append(@, pwRun[e].backoff),
                              !.backoff = 2 * @]]
    /\ UNCHANGED <<pwMain, pwCtxDone>>

\* wg.Wait() returns once every goroutine has run its deferred wg.Done()
PwWaitReturn ==
    /\ pwMain = "wait"
    /\ \A e \in antigravityEndpoints : pwRun[e].pc = "done"
    /\ pwMain' = "returned"
    /\ UNCHANGED <<pwCtxDone, pwRun>>

notWarm == <<recVars, mgrVars, wrkVars, streamVars, resolved, transVars, oauthVars>>

PwStart == (\E n \in 1..MaxAttempts : PrewarmAntigravityConnections(n)) /\ UNCHANGED notWarm
PwCtxCancel == PwCancel /\ UNCHANGED notWarm
PwAttempt == (\E e \in antigravityEndpoints : \E ok \in BOOLEAN : prewarmHTTP(e, ok)) /\ UNCHANGED notWarm
PwBackoffDone == (\E e \in antigravityEndpoints : PwSelectDone(e)) /\ UNCHANGED notWarm
PwBackoffAfter == (\E e \in antigravityEndpoints : PwSelectAfter(e)) /\ UNCHANGED notWarm
PwReturn == PwWaitReturn /\ UNCHANGED notWarm

\* the steps the prewarm goroutines and the waiting caller take by themselves
PwProgress == PwAttempt \/ PwBackoffDone \/ PwBackoffAfter \/ PwReturn

PrewarmNext == PwStart \/ PwCtxCancel \/ PwAttempt \/ PwBackoffDone \/ PwBackoffAfter \/ PwReturn

(***************************************************************************)
(* oauth.Registry: the pending OAuth requests                              *)
(*                                                                         *)
(* oReqs is the heap of OAuthRequest objects ever made; requests and byID  *)
(* map a key to the index of an object in it, 0 for no entry.  Keys are    *)
(* pairs: the k-th random state and id that Register draws, and strings    *)
(* given by callers.  Every method holds r.mu from its first read to its   *)
(* last write, so a method is one step.  Time is in seconds.               *)
(***************************************************************************)
MaxReqs == 2
MaxAdvances == 2
MaxOauthOps == 4

defaultTTL == 300
cleanupPeriod == 30

OKeys == {"state", "id", "given"} \X (1..MaxReqs)

RandomState(k) == <<"state", k>>
RandomId(k) == <<"id", k>>

\* the value a receive on a closed and empty ResultChan yields
NilResult == [Code |-> "", Error |-> "", closed |-> TRUE]
OAuthResult(code, err) == [Code |-> code, Error |-> err, closed |-> FALSE]

\* &OAuthRequest{...} with ResultChan: make(chan *OAuthResult, 1)
OAuthRequest(by, id, state, status, err, expiresAt) ==
    [by |-> by, ID |-> id, State |-> state, Status |-> status, Error |-> err,
     ExpiresAt |-> expiresAt, ResultChan |-> <<>>, channelClosed |-> FALSE,
     closes |-> 0, sentClosed |-> FALSE, got |-> <<>>]

OAuthInit ==
    /\ requests = [s \in OKeys |-> 0]
    /\ byID = [s \in OKeys |-> 0]
    /\ oReqs = <<>>
    /\ oNow = StartTime
    /\ oCleaned = 0
    /\ oOps = 0

\* a goroutine has panicked on a send on a closed channel or a second close
OPanicked == \E k \in 1..Len(oReqs) : oReqs[k].sentClosed \/ oReqs[k].closes > 1

\* select { case req.ResultChan <- v: default: }
TrySend(req, v) ==
    IF req.closes > 0 THEN [req EXCEPT !.sentClosed = TRUE]
    ELSE IF Len(req.ResultChan) < 1 THEN [req EXCEPT !.ResultChan = Append(@, v)]
    ELSE req

\* r.requests[state] = req; r.byID[id] = req for a request just made
OStore(req) ==
    /\ Len(oReqs) < MaxReqs
    /\ oReqs' = Append(oReqs, req)
    /\ requests' = [requests EXCEPT ![req.State] = Len(oReqs) + 1]
    /\ byID' = [byID EXCEPT ![req.ID] = Len(oReqs) + 1]

\* Register: a random state and a random id, status pending, expiry now + TTL
Register ==
    OStore(OAuthRequest("Register", RandomId(Len(oReqs) + 1), RandomState(Len(oReqs) + 1),
                        "pending", "", oNow + defaultTTL))

\* Create: the id is the state
Create(state) ==
    OStore(OAuthRequest("Create", state, state, "pending", "", oNow + defaultTTL))

\* Complete(state, result)
Complete(state) ==
    /\ UNCHANGED <<requests, byID>>
    /\ IF requests[state] = 0 \/ oReqs[requests[state]].Status # "pending"
       THEN UNCHANGED oReqs
       ELSE oReqs' = [oReqs EXCEPT ![requests[state]] =
                         TrySend([@ EXCEPT !.Status = "completed"], OAuthResult("code", ""))]

\* Fail(state, errMsg): a request is made for a state that has none (without
\* an expiry time, the zero time); a request that is there is set to failed
Fail(state, errMsg) ==
    IF requests[state] = 0
    THEN OStore(OAuthRequest("Fail", state, state, "failed", errMsg, 0))
    ELSE /\ UNCHANGED <<requests, byID>>
         /\ oReqs' = [oReqs EXCEPT ![requests[state]] =
                         TrySend([@ EXCEPT !.Status = "failed", !.Error = errMsg],
                                 OAuthResult("", errMsg))]

\* Cancel(state)
Cancel(state) ==
    /\ UNCHANGED <<requests, byID>>
    /\ IF requests[state] = 0 \/ oReqs[requests[state]].Status # "pending"
       THEN UNCHANGED oReqs
       ELSE oReqs' = [oReqs EXCEPT ![requests[state]] =
                         TrySend([@ EXCEPT !.Status = "cancelled", !.Error = "cancelled"],
                                 OAuthResult("", "cancelled"))]

\* if req.channelClosed.CompareAndSwap(false, true) { close(req.ResultChan) }
CloseOnceChan(req) ==
    IF req.channelClosed THEN req
    ELSE [req EXCEPT !.channelClosed = TRUE, !.closes = @ + 1]

\* a Remove that closes the channel and leaves the two map entries
RemoveKeepEntries(state) ==
    /\ UNCHANGED <<requests, byID>>
    /\ IF requests[state] = 0
       THEN UNCHANGED oReqs
       ELSE oReqs' = [oReqs EXCEPT ![requests[state]] = CloseOnceChan(@)]

\* Remove(state), and Delete(state), which calls it
Remove(state) ==
    IF requests[state] = 0
    THEN UNCHANGED <<requests, byID, oReqs>>
    ELSE /\ requests' = [requests EXCEPT ![state] = 0]
         /\ byID' = [byID EXCEPT ![oReqs[requests[state]].ID] = 0]
         /\ oReqs' = [oReqs EXCEPT ![requests[state]] = CloseOnceChan(@)]

\* the requests cleanup finds expired: now.After(req.ExpiresAt)
Expired(t) == {s \in OKeys : requests[s] # 0 /\ t > oReqs[requests[s]].ExpiresAt}

\* cleanup: every expired request is deleted from both maps; one that is still
\* pending is set to expired and its waiter is sent the expiry first
cleanup(t) ==
    /\ oReqs' = [k \in 1..Len(oReqs) |->
                   IF /\ \E s \in Expired(t) : requests[s] = k
                      /\ oReqs[k].Status = "pending"
                   THEN TrySend([oReqs[k] EXCEPT !.Status = "expired", !.Error = "expired"],
                                OAuthResult("", "expired"))
                   ELSE oReqs[k]]
    /\ requests' = [s \in OKeys |-> IF s \in Expired(t) THEN 0 ELSE requests[s]]
    /\ byID' = [i \in OKeys |->
                  IF \E s \in Expired(t) : oReqs[requests[s]].ID = i THEN 0 ELSE byID[i]]

\* the goroutine that waits for the result of a request: <-req.ResultChan, once
Receive(k) ==
    /\ oReqs[k].got = <<>>
    /\ \/ /\ oReqs[k].ResultChan # <<>>
          /\ oReqs' = [oReqs EXCEPT ![k] = [@ EXCEPT !.got = Append(@, Head(oReqs[k].ResultChan)),
                                                    !.ResultChan = Tail(@)]]
       \/ /\ oReqs[k].ResultChan = <<>>
          /\ oReqs[k].closes > 0
          /\ oReqs' = [oReqs EXCEPT ![k] = [@ EXCEPT !.got = Append(@, NilResult)]]
    /\ UNCHANGED <<requests, byID>>

\* the states callers pass: those of the requests made so far, and one more
StateArgs == {<<"given", 1>>} \cup {oReqs[k].State : k \in 1..Len(oReqs)}

notOAuth == <<recVars, mgrVars, wrkVars, streamVars, resolved, transVars, warmVars>>

\* a call of a method of the registry
OCall == /\ ~OPanicked
         /\ oOps < MaxOauthOps
         /\ oOps' = oOps + 1
         /\ UNCHANGED <<oNow, oCleaned>>
         /\ UNCHANGED notOAuth

ORegister == OCall /\ Register
OCreate == OCall /\ \E s \in StateArgs : Create(s)
OComplete == OCall /\ \E s \in StateArgs : Complete(s)
OFail == OCall /\ \E s \in StateArgs : Fail(s, "denied")
OCancel == OCall /\ \E s \in StateArgs : Cancel(s)
ORemove == OCall /\ \E s \in StateArgs : Remove(s)
OReceive == OCall /\ \E k \in 1..Len(oReqs) : Receive(k)

\* cleanupLoop: the ticker fires and cleanup runs with the time it reads
OCleanup ==
    /\ ~OPanicked
    /\ oOps < MaxOauthOps
    /\ oOps' = oOps + 1
    /\ cleanup(oNow)
    /\ oCleaned' = oNow
    /\ UNCHANGED oNow
    /\ UNCHANGED notOAuth

\* the number of times the clock has been advanced
Advances ==
    (oNow - StartTime) \div defaultTTL + ((oNow - StartTime) % defaultTTL) \div cleanupPeriod

\* time passes: a ticker period, or the time to live of a request
OAdvance ==
    /\ ~OPanicked
    /\ Advances < MaxAdvances
    /\ \E d \in {cleanupPeriod, defaultTTL} : oNow' = oNow + d
    /\ UNCHANGED <<requests, byID, oReqs, oCleaned, oOps>>
    /\ UNCHANGED notOAuth

OAuthNext ==
    \/ ORegister \/ OCreate \/ OComplete \/ OFail \/ OCancel \/ ORemove
    \/ OReceive \/ OCleanup \/ OAdvance

(***************************************************************************)
(* Specifications                                                          *)
(***************************************************************************)
InitAll ==
    /\ RecInit /\ MgrInit /\ WrkIdle /\ StreamInit /\ ResolveInit
    /\ ToolIdInit /\ PrepInit /\ BuiltInit /\ XlateInit
    /\ PwInit /\ OAuthInit

\* the generic result recorder on its own
SpecRecorder == InitAll /\ [][RecNext]_vars

StatusNext == MarkStatusResult \/ Tick

\* results of every status recorded one after the other
SpecStatus == InitAll /\ [][StatusNext]_vars

QuotaNextStep == MarkQuotaResult \/ Tick

\* 429 results and successes on two auths recorded one after the other
SpecQuota == InitAll /\ [][QuotaNextStep]_vars

LadderNext == MarkLadderResult \/ Tick

\* long runs of 429 results on one quota group
SpecLadder == InitAll /\ [][LadderNext]_vars

AggregateNext == MarkAggregateResult \/ Tick

\* successes and failures on the models of one auth recorded one after the other
SpecAggregate == InitAll /\ [][AggregateNext]_vars

\* the buffer pool and its clients
SpecPool == InitAll /\ [][PoolNext]_vars

\* a line scanner over a stream, with other clients of the buffer pool
SpecScanner == InitAll /\ [][ScanNext]_vars

\* calls of ResolveAllProviders
SpecResolve == InitAll /\ [][ResolveNext]_vars

\* toClaudeToolID on its own
SpecToolId == InitAll /\ [][ToolIdNext]_vars

\* normalizeThinkingBudget and util.NormalizeThinkingBudget on their own
SpecBudget == InitAll /\ [][BudgetNext]_vars

\* the limits pass on its own
SpecLimits == InitAll /\ [][LimitsNext]_vars

\* thinking normalisation on its own
SpecThinking == InitAll /\ [][ThinkingNext]_vars

\* a request preprocessed, and preprocessed again
SpecPreprocess == InitAll /\ [][PreprocessNext]_vars

\* the response builder on its own
SpecBuilder == InitAll /\ [][BuilderNext]_vars

\* an OpenAI request translated for Gemini
SpecXlate == InitAll /\ [][XlateNext]_vars

\* the async worker: callers submit, workers process, Stop is called once
\* prewarm: a runnable goroutine is scheduled, every HEAD request ends within
\* its timeout, timers fire
SpecPrewarm == InitAll /\ [][PrewarmNext]_vars /\ WF_vars(PwProgress)

SpecOAuth == InitAll /\ [][OAuthNext]_vars

SpecWorker == InitAll /\ [][WrkNext]_vars

\* the async worker before Stop, while the clock advances
SpecClock == InitAll /\ [][ClockNext]_vars

(***************************************************************************)
(* Claims about streamutil.ResultRecorder                                  *)
(***************************************************************************)
\* C2: every item whose Record returned true is handled at most once, and once
\* Stop has returned every such item has been handled exactly once (nothing
\* accepted is left in the queue).
C2_HandledExactlyOnceAfterStop ==
    /\ \A c \in RecCallerIds : rHandled[c] <= 1
    /\ rStop = "returned" =>
         \A c \in RecCallerIds : rCaller[c].ret = "true" => rHandled[c] = 1

\* a step in which caller c executes a select of Record
RecordStepOf(c) ==
    /\ rCaller[c].pc \in {"idle", "sel2"}
    /\ rCaller'[c] # rCaller[c]
    /\ rCaller'[c].kind = "Record"

LastFrame == frame[MainThread]

\* the last result was recorded on a model of an auth of the pool
LastOnPair ==
    /\ LastFrame.pc = "done"
    /\ LastFrame.result.AuthID \in PoolAuths
    /\ LastFrame.result.Model # ""

\* the model state the last result was recorded on
LastState == auths[LastFrame.result.AuthID].ModelStates[LastFrame.result.Model]

LastStatus == StatusCodeFromResult(LastFrame.result.Error)

\* SuspendClientModel was called for the pair of the last result with this reason
LastSuspendedFor(reason) ==
    \E i \in 1..Len(LastFrame.calls) :
        /\ LastFrame.calls[i].fn = "SuspendClientModel"
        /\ LastFrame.calls[i].auth = LastFrame.result.AuthID
        /\ LastFrame.calls[i].model = LastFrame.result.Model
        /\ LastFrame.calls[i].reason = reason

LastSuspended == \E reason \in {"unauthorized", "payment_required", "not_found",
                                "quota", "quota_group", ""} : LastSuspendedFor(reason)

LastIsUserError ==
    CategorizeError(LastStatus, LastFrame.result.Error.Message) = "user_error"

\* C5: a failure that is no user error sets NextRetryAfter from the status as the
\* table says (401/402/403: 30 min, 404: 12 h, 408/500/502/503/504: 1 min, any
\* other but 429: 30 s), and suspension of the pair is requested exactly for 401
\* (unauthorized), 402/403 (payment_required), 404 (not_found) and 429 (quota).
C5_StatusTable ==
    (LastOnPair /\ ~LastFrame.result.Success /\ ~LastIsUserError) =>
        /\ LastStatus \in {401, 402, 403} =>
             LastState.NextRetryAfter = LastFrame.t + 30 * 60
        /\ LastStatus = 404 => LastState.NextRetryAfter = LastFrame.t + 12 * 3600
        /\ LastStatus \in {408, 500, 502, 503, 504} =>
             LastState.NextRetryAfter = LastFrame.t + 60
        /\ LastStatus \notin {401, 402, 403, 404, 408, 429, 500, 502, 503, 504} =>
             LastState.NextRetryAfter = LastFrame.t + 30
        /\ LastStatus = 401 => LastSuspendedFor("unauthorized")
        /\ LastStatus \in {402, 403} => LastSuspendedFor("payment_required")
        /\ LastStatus = 404 => LastSuspendedFor("not_found")
        /\ LastStatus = 429 => LastSuspendedFor("quota")
        /\ LastSuspended <=> LastStatus \in {401, 402, 403, 404, 429}
        /\ \A i \in 1..Len(LastFrame.calls) :
             (LastFrame.calls[i].fn = "SuspendClientModel"
                /\ LastFrame.calls[i].model = LastFrame.result.Model) =>
               LastFrame.calls[i].reason =
                 CASE LastStatus = 401 -> "unauthorized"
                   [] LastStatus \in {402, 403} -> "payment_required"
                   [] LastStatus = 404 -> "not_found"
                   [] OTHER -> "quota"

\* a 408 that is no user error was recorded: one minute, no suspension
C5_Witness ==
    /\ LastOnPair /\ ~LastFrame.result.Success /\ ~LastIsUserError
    /\ LastStatus = 408
    /\ LastState.NextRetryAfter = LastFrame.t + 60
    /\ ~LastSuspended
    /\ steps = 2

\* the step records a 429 with Retry-After on a model of an auth of the pool
Records429(withRetryAfter) ==
    /\ steps' # steps
    /\ frame'[MainThread].result.AuthID \in PoolAuths
    /\ frame'[MainThread].result.Model # ""
    /\ ~frame'[MainThread].result.Success
    /\ StatusCodeFromResult(frame'[MainThread].result.Error) = 429
    /\ withRetryAfter => ~frame'[MainThread].result.RetryAfter.nil

\* C6: a 429 with retry_after = D leaves the model state with
\* Quota.NextRecoverAt = NextRetryAfter = t_mark + D and the backoff level it had.
C6_RetryAfterHonoured ==
    [][Records429(TRUE) =>
         LET r == frame'[MainThread].result
             before == auths[r.AuthID].ModelStates[r.Model]
             after == auths'[r.AuthID].ModelStates[r.Model]
         IN  /\ after.Quota.NextRecoverAt = now + r.RetryAfter.d
             /\ after.NextRetryAfter = now + r.RetryAfter.d
             /\ after.Quota.BackoffLevel = before.Quota.BackoffLevel
      ]_vars

\* a 429 with Retry-After = 60 s was recorded on a model already at level 2
C6_Witness ==
    /\ LastOnPair /\ LastStatus = 429
    /\ ~LastFrame.result.RetryAfter.nil
    /\ LastFrame.result.RetryAfter.d = 60
    /\ LastState.Quota.BackoffLevel = 2
    /\ LastState.Quota.NextRecoverAt = LastFrame.t + 60

\* C7: whenever a 429 sets Quota.Exceeded, the NextRecoverAt stored with it is
\* strictly later than the processing instant, whatever the Retry-After.
C7_RecoverAtInFuture ==
    (LastOnPair /\ ~LastFrame.result.Success /\ LastStatus = 429) =>
        /\ LastState.Quota.Exceeded
        /\ LastState.Quota.NextRecoverAt > LastFrame.t

\* the cooldowns of the ladder, in seconds: 1 min, 5 min, 15 min, 1 h, 6 h
LadderSeconds == <<60, 300, 900, 3600, 21600>>

\* C8: the k-th consecutive 429 without Retry-After on a pair (no success in
\* between) cools down for the k-th step of the ladder 1 min, 5 min, 15 min, 1 h,
\* 6 h and stays at 6 h; the level advances by one per hit up to the top; a
\* success resets it, so the next such 429 cools down for 1 min again.
C8_BackoffLadder ==
    \A a \in PoolAuths : \A m \in Models :
        /\ streak[a][m] >= 1 =>
             applied[a][m] = LadderSeconds[Min2(streak[a][m], 5)]
        /\ auths[a].ModelStates[m].Quota.BackoffLevel = Min2(streak[a][m], 4)

\* six 429 without Retry-After in a row: the sixth stays at 6 h
C8_Witness ==
    /\ streak["a1"]["m1"] = 6
    /\ applied["a1"]["m1"] = 21600
    /\ auths["a1"].ModelStates["m1"].Quota.BackoffLevel = 4

\* the models that share the quota event of a 429 on m: m and its group
QuotaGroupOf(m) == {m} \cup {x \in Models : GroupOf(m) # "" /\ GroupOf(x) = GroupOf(m)}

\* C9: after a 429 on model m of auth a, every model of a in m's quota group is
\* quota-exceeded with m's NextRecoverAt and the registry is told to mark it
\* quota-exceeded and to suspend it; the other model states of a and the other
\* auths are unchanged.
C9_QuotaGroupPropagation ==
    [][Records429(FALSE) =>
         LET f == frame'[MainThread]
             r == f.result
             told(fn, x) == \E i \in 1..Len(f.calls) :
                               /\ f.calls[i].fn = fn
                               /\ f.calls[i].auth = r.AuthID
                               /\ f.calls[i].model = x
         IN  /\ \A x \in QuotaGroupOf(r.Model) :
                   /\ auths'[r.AuthID].ModelStates[x].Quota.Exceeded
                   /\ auths'[r.AuthID].ModelStates[x].Quota.NextRecoverAt =
                        auths'[r.AuthID].ModelStates[r.Model].Quota.NextRecoverAt
                   /\ told("SetModelQuotaExceeded", x)
                   /\ told("SuspendClientModel", x)
             /\ \A x \in Models \ QuotaGroupOf(r.Model) :
                   auths'[r.AuthID].ModelStates[x] = auths[r.AuthID].ModelStates[x]
             /\ \A b \in PoolAuths \ {r.AuthID} : auths'[b] = auths[b]
      ]_vars

\* a 429 on (a1, m1) reached its group mate m2, while a2 holds a state of its own
C9_Witness ==
    /\ LastOnPair /\ LastStatus = 429
    /\ LastFrame.result.AuthID = "a1" /\ LastFrame.result.Model = "m1"
    /\ auths["a1"].ModelStates["m2"].Quota.Exceeded
    /\ auths["a1"].ModelStates["m2"].Quota.NextRecoverAt = LastState.Quota.NextRecoverAt
    /\ \E i \in 1..Len(LastFrame.calls) :
          /\ LastFrame.calls[i].fn = "SuspendClientModel"
          /\ LastFrame.calls[i].model = "m2"
    /\ auths["a1"].ModelStates["m3"].present
    /\ auths["a2"].ModelStates["m1"].present

\* C10: right after a success on (a, m), the pair's unavailable flag is false and
\* its next_retry_after is not later than the processing instant.
C10_SuccessClearsModel ==
    (LastOnPair /\ LastFrame.result.Success) =>
        /\ ~LastState.Unavailable
        /\ LastState.NextRetryAfter <= LastFrame.t

\* a success recorded on a pair that had a failure recorded before
C10_Witness ==
    /\ LastOnPair /\ LastFrame.result.Success
    /\ everFailed[LastFrame.result.AuthID][LastFrame.result.Model]
    /\ ~LastState.Unavailable
    /\ LastState.NextRetryAfter = 0

(***************************************************************************)
(* Claims about the async result worker                                    *)
(***************************************************************************)
Queued(j) == \E i \in 1..Len(wQueue) : wQueue[i] = j

\* C1: every result passed to Submit before Stop is called is processed by
\* processResult exactly once: it is never processed twice, it is unprocessed
\* only while it still sits in the queue, and once Stop has returned it has
\* been processed, whether a worker or the fallback of a full queue took it.
C1_SubmittedProcessedOnce ==
    \A j \in 1..Len(wJobs) :
        wJobs[j].beforeStop =>
            /\ wJobs[j].processed <= 1
            /\ (wJobs[j].processed = 0) <=> Queued(j)
            /\ (wStop = "returned") => (wJobs[j].processed = 1)

\* Stop has returned; one result went through the queue, one through the
\* fallback of a full queue, both submitted before Stop, each processed once
C1_Witness ==
    /\ wStop = "returned"
    /\ \E j \in 1..Len(wJobs) :
          wJobs[j].beforeStop /\ wJobs[j].how = "queued" /\ wJobs[j].processed = 1
    /\ \E j \in 1..Len(wJobs) :
          wJobs[j].beforeStop /\ wJobs[j].how = "fallback" /\ wJobs[j].processed = 1

\* C4: while a result is processed, no call into the model registry
\* (SetModelQuotaExceeded, ClearModelQuotaExceeded, SuspendClientModel,
\* ResumeClientModel) is made while the manager write lock m.mu is held.
C4_NoRegistryCallUnderLock ==
    \A th \in Threads :
        \A i \in 1..Len(frame[th].calls) : ~frame[th].calls[i].locked

(***************************************************************************)
(* Claims about user errors and the aggregated status                      *)
(***************************************************************************)
\* the step records a failed result the classifier calls a user error, on a
\* model of an auth of the pool
RecordsUserError ==
    /\ steps' # steps
    /\ frame'[MainThread].result.AuthID \in PoolAuths
    /\ frame'[MainThread].result.Model # ""
    /\ ~frame'[MainThread].result.Success
    /\ CategorizeError(StatusCodeFromResult(frame'[MainThread].result.Error),
                       frame'[MainThread].result.Error.Message) = "user_error"

\* C11: a failed result classified as a user error leaves the model state's
\* Unavailable, Status, LastError and StatusMessage and the auth's Status,
\* LastError and StatusMessage as they were (a model state met for the first
\* time is compared with the state ensureModelState creates); an Active auth
\* stays Active.
C11_UserErrorKeepsStatus ==
    [][RecordsUserError =>
         LET r == frame'[MainThread].result
             a0 == auths[r.AuthID]
             a1 == auths'[r.AuthID]
             before == EnsureModelState(a0, r.Model).ModelStates[r.Model]
             after == a1.ModelStates[r.Model]
         IN  /\ after.Unavailable = before.Unavailable
             /\ after.Status = before.Status
             /\ after.LastError = before.LastError
             /\ after.StatusMessage = before.StatusMessage
             /\ a1.Status = a0.Status
             /\ a1.LastError = a0.LastError
             /\ a1.StatusMessage = a0.StatusMessage
             /\ a0.Status = "active" => a1.Status = "active"
      ]_vars

\* a user error (400, "invalid role") was recorded on a pair of an Active auth
\* that had a success before: the auth is still Active without an error
C11_Witness ==
    /\ LastOnPair /\ ~LastFrame.result.Success /\ LastIsUserError
    /\ LastStatus = 400
    /\ steps = 2
    /\ auths[LastFrame.result.AuthID].Status = "active"
    /\ auths[LastFrame.result.AuthID].LastError.nil
    /\ ~LastState.Unavailable
    /\ LastState.UpdatedAt = LastFrame.t

\* C12: a failed result classified as a user error does not change the model's
\* NextRetryAfter or Quota, asks for no suspension of the pair, marks no quota
\* hit in the registry and does not reach the quota group.
C12_UserErrorNotCounted ==
    [][RecordsUserError =>
         LET f == frame'[MainThread]
             r == f.result
             before == EnsureModelState(auths[r.AuthID], r.Model).ModelStates[r.Model]
             after == auths'[r.AuthID].ModelStates[r.Model]
         IN  /\ after.NextRetryAfter = before.NextRetryAfter
             /\ after.Quota = before.Quota
             /\ ~f.suspend
             /\ ~f.setQuota
             /\ ~f.quotaHit
             /\ \A i \in 1..Len(f.calls) :
                   f.calls[i].fn \notin {"SuspendClientModel", "SetModelQuotaExceeded"}
             /\ \A x \in Models \ {r.Model} :
                   auths'[r.AuthID].ModelStates[x] = auths[r.AuthID].ModelStates[x]
      ]_vars

\* C13: once results have been recorded on the models of an auth, its
\* aggregated Status is Active exactly when at least one of its model states is
\* not in Error/Unavailable and its LastError is nil.
C13_StatusActiveIff ==
    \A a \in PoolAuths :
        (\E m \in Models : auths[a].ModelStates[m].present) =>
            ((auths[a].Status = "active") <=>
                /\ \E m \in Models :
                      /\ auths[a].ModelStates[m].present
                      /\ ~auths[a].ModelStates[m].Unavailable
                      /\ auths[a].ModelStates[m].Status # "error"
                /\ auths[a].LastError.nil)

Completed(j) == wJobs[j].processed = 1 /\ \A th \in Threads : frame[th].job # j

\* C15: for a processed result whose AuthID names an auth of the pool, persist
\* is called exactly once, after m.mu has been released, with the clone taken in
\* the critical section of that result's own state update; for a result with an
\* empty or unknown AuthID no auth state changes and nothing is persisted.
C15_PersistOncePerResult ==
    \A j \in 1..Len(wJobs) :
        /\ wJobs[j].persists <= 1
        /\ (wJobs[j].result.AuthID \in PoolAuths /\ Completed(j)) => wJobs[j].persists = 1
        /\ wJobs[j].persists = 1 =>
              /\ wJobs[j].result.AuthID \in PoolAuths
              /\ ~wJobs[j].persistLocked
              /\ wJobs[j].saved = wJobs[j].updated
        /\ wJobs[j].result.AuthID \notin PoolAuths =>
              /\ wJobs[j].persists = 0
              /\ ~wJobs[j].touched

\* a result of a1 has been processed and persisted once with its own snapshot,
\* and results with an empty and with an unknown AuthID have been processed too
C15_Witness ==
    /\ \E j \in 1..Len(wJobs) :
          /\ wJobs[j].result.AuthID = "a1" /\ Completed(j)
          /\ wJobs[j].persists = 1
          /\ wJobs[j].saved.ModelStates["m1"].Quota.Exceeded
          /\ store["a1"].saved
    /\ \E j \in 1..Len(wJobs) : wJobs[j].result.AuthID \notin PoolAuths /\ Completed(j)

\* C16: Submit returns without blocking the caller: whatever the queue
\* occupancy, the calling goroutine never runs processResult (waiting for m.mu,
\* for persistence or for the OnResult hook) before Submit returns.
C16_SubmitNeverRunsProcessResult ==
    \A c \in WrkCallerIds : frame[c].pc = "idle"

(***************************************************************************)
(* Claims about the buffer pool, the line scanner and the stream reader    *)
(***************************************************************************)
\* C17: after any sequence of Get and Put calls (Put being given buffers of any
\* capacity), every Get(size) returns a buffer of length 0 and capacity >= size;
\* what a pool stores has length 0 and a capacity of at most 1 MiB.
C17_GetHasCapacity ==
    /\ lastGet.called => (lastGet.len = 0 /\ lastGet.cap >= lastGet.size)
    /\ \A c \in PoolClasses : \A i \in 1..Len(bufs) :
          pools[c][i] > 0 => (bufs[i].len = 0 /\ bufs[i].cap <= largeBufferSize)

\* C18: over any number of sequential Close calls of one LineScanner, done is
\* called exactly once and the scanner's buffer is put back into the pool
\* exactly once, so the pool never hands one buffer to two holders.
C18_CloseReturnsBufferOnce ==
    /\ scanner.closes >= 1 => (scanner.doneCalls = 1 /\ scanner.puts = 1)
    /\ \A i \in 1..Len(bufs) : Cardinality(holders[i]) <= 1

\* C19: Read with a context that is already done returns (0, ctx.Err()) without
\* reading the body and without touch; otherwise it reads the body exactly once
\* and calls touch exactly when that read returned n > 0.
C19_ReadChecksContext ==
    reader.last.called =>
        IF reader.last.ctxWasDone
        THEN /\ reader.last.n = 0 /\ reader.last.err = "ctx"
             /\ reader.last.bodyReads = 0 /\ reader.last.touches = 0
        ELSE /\ reader.last.bodyReads = 1
             /\ reader.last.touches \in {0, 1}
             /\ reader.last.touches = 1 <=> reader.last.n > 0

\* a Read that returned bytes called touch, an empty Read did not, and the Read
\* after the cancellation returned the context's error without a body read
C19_Witness ==
    /\ reader.last.called /\ reader.last.ctxWasDone
    /\ reader.last.err = "ctx" /\ reader.last.bodyReads = 0
    /\ reader.reads = 3
    /\ reader.touches = 1

(***************************************************************************)
(* Claims about registry.ResolveAllProviders                               *)
(***************************************************************************)
\* the priority of provider p in the family of id
PriorityOf(id, p) ==
    LET family == ModelFamilies[id]
    IN  family[CHOOSE i \in 1..Len(family) : family[i].Provider = p].Priority

\* the providers of the family of id that occur in the list
AvailableMembers(id, available) ==
    IF id \in DOMAIN ModelFamilies
    THEN {ModelFamilies[id][i].Provider : i \in 1..Len(ModelFamilies[id])}
            \cap {available[i] : i \in 1..Len(available)}
    ELSE {}

\* r lists every provider of ps exactly once by non-decreasing priority number
OrderedByPriority(id, ps, r) ==
    /\ Len(r) = Cardinality(ps)
    /\ {r[i] : i \in 1..Len(r)} = ps
    /\ \A i, j \in 1..Len(r) : i < j => PriorityOf(id, r[i]) <= PriorityOf(id, r[j])

\* C20: ResolveAllProviders returns exactly the family's available providers,
\* each once, by non-decreasing priority number (the first at the lowest number
\* present), every order inside a priority level being a possible outcome; it
\* returns (nil, false) exactly when the id is no family or no member is
\* available.
C20_ResolveAllByPriority ==
    resolved.called =>
        LET ps == AvailableMembers(resolved.id, resolved.available)
        IN  /\ resolved.ok <=> (resolved.id \in DOMAIN ModelFamilies /\ ps # {})
            /\ ~resolved.ok => resolved.result = <<>>
            /\ resolved.ok =>
                  /\ OrderedByPriority(resolved.id, ps, resolved.result)
                  /\ \A p \in ps : PriorityOf(resolved.id, resolved.result[1])
                                      <= PriorityOf(resolved.id, p)
                  /\ {o.result : o \in ResolveAllProviders(resolved.id, resolved.available)}
                        = {r \in [1..Cardinality(ps) -> ps] :
                              OrderedByPriority(resolved.id, ps, r)}

\* with duplicates in the list, the two providers of priority 1 came out in the
\* order opposite to the family's, before the provider of priority 2
C20_Witness ==
    /\ resolved.called /\ resolved.ok
    /\ resolved.id = "claude-sonnet-4-5"
    /\ resolved.available = <<"claude", "kiro", "antigravity">>
    /\ resolved.result = <<"antigravity", "kiro", "claude">>

(***************************************************************************)
(* Claims about the tool-call id conversion                                *)
(***************************************************************************)
HasPrefix(s, p) == Len(s) >= Len(p) /\ SubSeq(s, 1, Len(p)) = p

DropPrefix(s, p) == SubSeq(s, Len(p) + 1, Len(s))

\* C21: for every id, the empty one and the bare prefixes included,
\* toClaudeToolID returns an id that begins with toolu_ unchanged, replaces a
\* leading call_ by toolu_ otherwise, and prepends toolu_ to any other id.
C21_ConversionRule ==
    toolId.last.called =>
        LET id == toolId.last.id
        IN  toolId.last.out =
               IF HasPrefix(id, tooluPrefix) THEN id
               ELSE IF HasPrefix(id, callPrefix)
                    THEN tooluPrefix \o DropPrefix(id, callPrefix)
                    ELSE tooluPrefix \o id

\* C22: toClaudeToolID maps the ids call_X one-to-one onto the ids toolu_X:
\* call_X goes to toolu_X, so that putting call_ back in the place of toolu_
\* restores the id, and two different call_ ids never get the same result.
C22_CallTooluBijection ==
    /\ toolId.last.called /\ HasPrefix(toolId.last.id, callPrefix) =>
          /\ toolId.last.out = tooluPrefix \o DropPrefix(toolId.last.id, callPrefix)
          /\ callPrefix \o DropPrefix(toolId.last.out, tooluPrefix) = toolId.last.id
    /\ ( /\ toolId.prev.called /\ toolId.last.called
         /\ HasPrefix(toolId.prev.id, callPrefix)
         /\ HasPrefix(toolId.last.id, callPrefix)
         /\ toolId.prev.id # toolId.last.id )
       => toolId.prev.out # toolId.last.out

(***************************************************************************)
(* Claims about preprocess                                                 *)
(***************************************************************************)
\* C23: preprocessing a preprocessed request changes nothing: model name,
\* max_tokens, candidate_count, thinking budget and include_thoughts are after
\* the second application what they were after the first.
C23_PreprocessIdempotent ==
    prep.pass = "twice" =>
        /\ prep.again.Model = prep.after.Model
        /\ prep.again.MaxTokens = prep.after.MaxTokens
        /\ prep.again.CandidateCount = prep.after.CandidateCount
        /\ prep.again.Thinking.set = prep.after.Thinking.set
        /\ prep.again.Thinking.ThinkingBudget = prep.after.Thinking.ThinkingBudget
        /\ prep.again.Thinking.IncludeThoughts = prep.after.Thinking.IncludeThoughts

\* the range [Min, Max] of a model's registry entry holds the budget
InRangeOf(info, budget) ==
    info.known /\ info.Thinking.set
        /\ budget.set /\ info.Thinking.Min <= budget.v /\ budget.v <= info.Thinking.Max

\* C24: a request with a thinking block for a Claude model without the
\* -thinking suffix, whose -thinking variant is in the registry, leaves thinking
\* normalisation with the variant's name and with its budget clamped to the
\* range of the variant's registry entry.
C24_PromotionClampsToThinkingModel ==
    ( /\ prep.pass = "thinking"
      /\ prep.before.Thinking.set
      /\ IsClaudeModel(prep.before.Model)
      /\ ~HasThinkingSuffix(prep.before.Model)
      /\ GetModelInfo(prep.registry, ThinkingName(prep.before.Model)).known )
    => /\ prep.after.Model = ThinkingName(prep.before.Model)
       /\ LET variant == GetModelInfo(prep.registry, prep.after.Model)
          IN  ( /\ prep.before.Thinking.ThinkingBudget.set
                /\ prep.before.Thinking.ThinkingBudget.v > 0
                /\ variant.Thinking.set )
              => InRangeOf(variant, prep.after.Thinking.ThinkingBudget)

\* the budget b is one the thinking support t allows
AllowedBudget(t, b) ==
    \/ b = -1 /\ t.DynamicAllowed
    \/ b = 0 /\ t.ZeroAllowed
    \/ t.Min <= b /\ b <= t.Max

\* normalizeThinkingBudget was called with a budget and with the ModelInfo of a
\* model that has a thinking range
BudgetNormalized ==
    /\ prep.pass = "budget"
    /\ prep.before.Thinking.set /\ prep.before.Thinking.ThinkingBudget.set
    /\ prep.info.known /\ prep.info.Thinking.set

\* C25: whatever budget is asked for, negative ones included, the budget
\* normalizeThinkingBudget leaves is an allowed one: -1 only if the model
\* allows dynamic, 0 only if it allows zero, otherwise within [min, max].
C25_BudgetAllowed ==
    BudgetNormalized =>
        /\ prep.after.Thinking.ThinkingBudget.set
        /\ AllowedBudget(prep.info.Thinking, prep.after.Thinking.ThinkingBudget.v)

ThinkingOnThinkingModel ==
    /\ prep.pass = "thinking"
    /\ prep.before.Thinking.set
    /\ IsClaudeModel(prep.before.Model)
    /\ HasThinkingSuffix(prep.before.Model)

\* C27: on a Claude model whose name already ends with -thinking,
\* promoteToThinkingModel gives a request without budget the budget 1024 and
\* include_thoughts = true, never replaces a budget that is set, and leaves
\* the model name alone.
C27_ThinkingModelDefaults ==
    ThinkingOnThinkingModel =>
        /\ prep.promoted.Model = prep.before.Model
        /\ prep.after.Model = prep.before.Model
        /\ prep.promoted.Thinking.IncludeThoughts
        /\ ~prep.before.Thinking.ThinkingBudget.set =>
               prep.promoted.Thinking.ThinkingBudget = Ptr(1024)
        /\ prep.before.Thinking.ThinkingBudget.set =>
               prep.promoted.Thinking.ThinkingBudget = prep.before.Thinking.ThinkingBudget

\* a request without budget and with include_thoughts = false got both defaults
C27_Witness ==
    /\ ThinkingOnThinkingModel
    /\ ~prep.before.Thinking.ThinkingBudget.set
    /\ ~prep.before.Thinking.IncludeThoughts
    /\ prep.promoted.Thinking.ThinkingBudget = Ptr(1024)
    /\ prep.promoted.Thinking.IncludeThoughts
    /\ prep.after.Model = <<"claude-sonnet-4-5", "-thinking">>

\* the limit of a model: output_token_limit, or max_completion_tokens when that is 0
ModelLimit(info) ==
    IF info.OutputTokenLimit # 0 THEN info.OutputTokenLimit ELSE info.MaxCompletionTokens

\* C28: after the limits pass a set candidate_count is in [1, 8] (smaller
\* values become 1, larger ones 8, values in range stay), and a set max_tokens
\* is at most the limit of a known model with a positive limit, values not
\* above the limit staying as they are.
C28_LimitsWithinBounds ==
    prep.pass = "limits" =>
        /\ prep.after.CandidateCount.set = prep.before.CandidateCount.set
        /\ prep.after.MaxTokens.set = prep.before.MaxTokens.set
        /\ prep.before.CandidateCount.set =>
              LET old == prep.before.CandidateCount.v
                  new == prep.after.CandidateCount.v
              IN  /\ 1 <= new /\ new <= 8
                  /\ old < 1 => new = 1
                  /\ old > 8 => new = 8
                  /\ (1 <= old /\ old <= 8) => new = old
        /\ ( /\ prep.before.MaxTokens.set
             /\ prep.info.known
             /\ ModelLimit(prep.info) > 0 )
           => /\ prep.after.MaxTokens.v <= ModelLimit(prep.info)
              /\ prep.before.MaxTokens.v <= ModelLimit(prep.info) =>
                     prep.after.MaxTokens = prep.before.MaxTokens

\* candidate_count 100 became 8 and max_tokens one above the limit became the limit
C28_Witness ==
    /\ prep.pass = "limits"
    /\ prep.before.CandidateCount = Ptr(100) /\ prep.after.CandidateCount = Ptr(8)
    /\ prep.info = ModelInfo(8, 6, NilThinkingSupport)
    /\ prep.before.MaxTokens = Ptr(9) /\ prep.after.MaxTokens = Ptr(8)

(***************************************************************************)
(* Claims about the response builder                                       *)
(***************************************************************************)
IsReasoningPart(p) == p.Type = "reasoning" /\ p.Reasoning # ""

IsTextPart(p) == p.Type = "text" /\ p.Text # ""

\* C29: the Claude content parts of the last message are its non-empty
\* reasoning parts as thinking blocks, then its non-empty text parts, then one
\* tool_use block per tool call, each group in its original order, however
\* reasoning and text are interleaved; the finish reason is tool_calls exactly
\* when the last message has a tool call, else stop.
C29_ReasoningTextToolUse ==
    built.called =>
        IF Len(built.messages) = 0
        THEN built.parts = <<>> /\ built.finish = "stop"
        ELSE LET msg == built.messages[Len(built.messages)]
                 r == SelectSeq(msg.Content, IsReasoningPart)
                 t == SelectSeq(msg.Content, IsTextPart)
                 tc == msg.ToolCalls
             IN  /\ Len(built.parts) = Len(r) + Len(t) + Len(tc)
                 /\ \A i \in 1..Len(r) :
                       built.parts[i] = [type |-> "thinking", thinking |-> r[i].Reasoning]
                 /\ \A i \in 1..Len(t) :
                       built.parts[Len(r) + i] = [type |-> "text", text |-> t[i].Text]
                 /\ \A i \in 1..Len(tc) :
                       /\ built.parts[Len(r) + Len(t) + i].type = "tool_use"
                       /\ built.parts[Len(r) + Len(t) + i].name = tc[i].Name
                 /\ built.finish = IF Len(tc) > 0 THEN "tool_calls" ELSE "stop"

\* text before reasoning in the message, reasoning before text in the parts
C29_Witness ==
    /\ built.called
    /\ built.messages =
          <<EarlierMessage,
            Message(<<ContentPart("text", "x", ""), ContentPart("reasoning", "", "y"),
                      ContentPart("image", "", "")>>,
                    <<ToolCall(callPrefix \o <<"a">>, "search", "{\"q\":1}")>>)>>
    /\ built.parts =
          <<[type |-> "thinking", thinking |-> "y"], [type |-> "text", text |-> "x"],
            [type |-> "tool_use", id |-> tooluPrefix \o <<"a">>, name |-> "search",
             input |-> {<<"q", 1>>}]>>
    /\ built.finish = "tool_calls"

(***************************************************************************)
(* Claims about the OpenAI to Gemini translation                           *)
(***************************************************************************)
\* the generationConfig objects emitted so far: plain and in the CLI envelope
EmittedConfigs ==
    (IF xlate.gemini.present THEN {xlate.gemini.v.generationConfig} ELSE {})
        \cup (IF xlate.cli.present THEN {xlate.cli.v.request.generationConfig} ELSE {})

\* C30: an OpenAI request with logprobs = true and top_logprobs = k is parsed
\* to an IR with Logprobs = true and TopLogprobs = k and emitted for Gemini,
\* plain and in the Gemini-CLI envelope, with generationConfig.responseLogprobs
\* = true and generationConfig.logprobs = k; max_tokens = n is emitted as
\* generationConfig.maxOutputTokens = n.
C30_LogprobsToGemini ==
    xlate.parsed =>
        /\ ( /\ xlate.openai.logprobs = Present(TRUE)
             /\ xlate.openai.top_logprobs.present )
           => /\ xlate.ir.Logprobs = Ptr(TRUE)
              /\ xlate.ir.TopLogprobs = Ptr(xlate.openai.top_logprobs.v)
              /\ \A cfg \in EmittedConfigs :
                    /\ <<"responseLogprobs", TRUE>> \in cfg
                    /\ <<"logprobs", xlate.openai.top_logprobs.v>> \in cfg
        /\ xlate.openai.max_tokens.present =>
              \A cfg \in EmittedConfigs :
                 <<"maxOutputTokens", xlate.openai.max_tokens.v>> \in cfg

\* the request of the package's test, emitted both ways
C30_Witness ==
    /\ xlate.parsed /\ xlate.gemini.present /\ xlate.cli.present
    /\ xlate.openai = [model |-> "gemini-2.5-flash", logprobs |-> Present(TRUE),
                       top_logprobs |-> Present(3), max_tokens |-> Present(5)]
    /\ xlate.gemini.v.generationConfig =
          {<<"responseLogprobs", TRUE>>, <<"logprobs", 3>>, <<"maxOutputTokens", 5>>}
    /\ xlate.cli.v.request = xlate.gemini.v

(***************************************************************************)
(* Claims about Stop, Submit and persistence of the async result worker    *)
(***************************************************************************)
\* C31: Stop waits for pending jobs: when Stop has returned, every job that was
\* in the queue when Stop was called has been processed (once, by a worker, and
\* its processResult has returned), all workers have exited and the queue is
\* empty.
C31_StopWaitsForPending ==
    wStop = "returned" =>
        /\ \A w \in WrkWorkerIds : wWorker[w] = "exited" /\ frame[w].pc = "idle"
        /\ wQueue = <<>>
        /\ \A j \in 1..Len(wJobs) :
              wJobs[j].atStop =>
                  /\ wJobs[j].how = "queued"
                  /\ wJobs[j].processed = 1
                  /\ Completed(j)

\* Stop has returned, and a result of a1 that was still in the queue when Stop
\* was called has been processed and persisted
C31_Witness ==
    /\ wStop = "returned"
    /\ \E j \in 1..Len(wJobs) :
          /\ wJobs[j].atStop
          /\ wJobs[j].result.AuthID = "a1"
          /\ wJobs[j].processed = 1
          /\ wJobs[j].persists = 1

(***************************************************************************)
(* Claims about Record and Stop of streamutil.ResultRecorder               *)
(***************************************************************************)
\* C34: in every interleaving of Record or RecordWithContext with Stop, calls
\* that start after Stop has returned included, no send is attempted on the
\* closed queue channel, so no call of Record or RecordWithContext panics.
C34_RecordNeverSendsOnClosed ==
    /\ ~rPanic
    /\ \A c \in RecCallerIds : rCaller[c].pc # "panicked"

\* C35: in every interleaving of Submit with Stop, Submit calls made after Stop
\* included, Submit never sends on the closed queue channel (no panic), and the
\* submitted result is either processed exactly once (still in the queue
\* meanwhile) or explicitly rejected.
C35_SubmitNeverSendsOnClosed ==
    /\ ~wPanic
    /\ \A j \in 1..Len(wJobs) :
          /\ wJobs[j].how \in {"queued", "fallback", "rejected"}
          /\ wJobs[j].how # "rejected" => (wJobs[j].processed = 1 \/ Queued(j))

\* C36: with results for the same auth processed concurrently, once all
\* submitted results have been processed the snapshot most recently persisted
\* for an auth equals the manager's in-memory state of that auth (the clone of
\* an earlier state update is never persisted after the clone of a later one).
C36_PersistedIsLatest ==
    (~wPanic /\ wQueue = <<>> /\ \A j \in 1..Len(wJobs) : Completed(j)) =>
        \A a \in PoolAuths : store[a].saved => store[a].auth = auths[a]

(***************************************************************************)
(* Claim about applying ir.toClaudeToolID twice                            *)
(***************************************************************************)
\* C40: toClaudeToolID is idempotent on every input, the empty id and the
\* bare prefixes call_ and toolu_ included: converting the result of a call
\* again gives that result, and every result starts with toolu_ and is
\* recognised as such.
C40_ToolIdIdempotent ==
    toolId.last.called =>
        /\ HasPrefix(toolId.last.out, tooluPrefix)
        /\ toClaudeToolID(toolId.last.out) = toolId.last.out

(***************************************************************************)
(* Claim about the connection prewarm                                      *)
(***************************************************************************)
\* 100 ms doubled k - 1 times
Doubled(k) == initialBackoff * 2 ^ (k - 1)

\* C33: prewarmHTTPWithRetry makes at least one and at most maxAttempts prewarm
\* attempts and none after the first successful one; before its k-th retry it
\* has waited the backoffs 100 ms, 200 ms, ... (k waits, each the double of the
\* one before); with the context cancelled during a backoff wait it returns
\* without another attempt; PrewarmAntigravityConnections returns only after
\* the prewarm of every endpoint has finished, and it always returns.
C33_PrewarmRetries ==
    /\ [](\A e \in antigravityEndpoints :
            /\ pwRun[e].tries <= pwRun[e].maxAttempts
            /\ pwRun[e].pc \in {"select", "done"} => pwRun[e].tries >= 1
            /\ pwRun[e].ok => pwRun[e].pc = "done"
            /\ Len(pwRun[e].waits) =
                 IF pwRun[e].pc = "http" THEN pwRun[e].tries
                 ELSE IF pwRun[e].tries = 0 THEN 0 ELSE pwRun[e].tries - 1
            /\ \A k \in 1..Len(pwRun[e].waits) : pwRun[e].waits[k] = Doubled(k))
    /\ [][\A e \in antigravityEndpoints :
            /\ pwRun[e].pc = "done" => pwRun'[e] = pwRun[e]
            /\ (pwRun[e].pc = "select" /\ pwCtxDone) =>
                  (pwRun'[e] = pwRun[e] \/
                     (pwRun'[e].pc = "done" /\ pwRun'[e].tries = pwRun[e].tries))]_vars
    /\ [](pwMain = "returned" => \A e \in antigravityEndpoints : pwRun[e].pc = "done")
    /\ ((pwMain = "wait") ~> (pwMain = "returned"))

\* the call has returned: one endpoint was prewarmed at the third attempt after
\* waits of 100 ms and 200 ms, the other gave up in a backoff wait when the
\* context was cancelled
C33_Witness ==
    /\ pwMain = "returned"
    /\ \E e \in antigravityEndpoints :
          pwRun[e].ok /\ pwRun[e].tries = 3 /\ pwRun[e].waits = <<100, 200>>
    /\ \E e \in antigravityEndpoints :
          pwRun[e].woken = "ctx" /\ ~pwRun[e].ok /\ pwRun[e].tries < pwRun[e].maxAttempts

(***************************************************************************)
(* Claims about oauth.Registry                                             *)
(***************************************************************************)
\* C32: under every interleaving of Complete, Fail, Cancel, Remove, Delete and
\* the periodic cleanup on the same state, a request's ResultChan is closed at
\* most once and no value is sent on it after it has been closed (no panic),
\* and no send blocks while the lock is held: a send finds room in the buffer
\* or is given up, so the buffer never holds more than its one value.
C32_ResultChanClosedOnce ==
    /\ ~OPanicked
    /\ \A k \in 1..Len(oReqs) :
          /\ oReqs[k].closes <= 1
          /\ ~oReqs[k].sentClosed
          /\ Len(oReqs[k].ResultChan) <= 1
          /\ oReqs[k].channelClosed <=> oReqs[k].closes = 1
          /\ oReqs[k].closes = 1 =>
                \A s \in OKeys : requests[s] # k

\* a request was completed and removed (its channel closed with the result in
\* it), and a later Fail on the same state made a new request instead of
\* sending on the closed channel
C32_Witness ==
    \E k, j \in 1..Len(oReqs) :
        /\ k < j
        /\ oReqs[k].Status = "completed"
        /\ oReqs[k].closes = 1
        /\ Len(oReqs[k].ResultChan) = 1
        /\ oReqs[j].by = "Fail"
        /\ oReqs[j].State = oReqs[k].State
        /\ requests[oReqs[k].State] = j

\* the result kinds that agree with a status
Agrees(status, err, res) ==
    \/ status = "completed" /\ res = OAuthResult("code", "")
    \/ status \in {"failed", "cancelled", "expired"} /\ res = OAuthResult("", err)

\* C37: a request's status only ever moves from pending to completed, failed,
\* cancelled or expired; once it has left pending, no later Complete, Fail,
\* Cancel or cleanup changes its status or its error; so the one result
\* delivered on ResultChan agrees with the final status.
C37_StatusLeavesPendingOnce ==
    /\ [][\A k \in 1..Len(oReqs) :
            oReqs[k].Status # "pending" =>
               (oReqs'[k].Status = oReqs[k].Status /\ oReqs'[k].Error = oReqs[k].Error)]_vars
    /\ [](\A k \in 1..Len(oReqs) :
            /\ Len(oReqs[k].ResultChan) + Len(oReqs[k].got) <= 1
               \/ (oReqs[k].ResultChan = <<>> /\ oReqs[k].got[Len(oReqs[k].got)] = NilResult)
            /\ \A i \in 1..Len(oReqs[k].ResultChan) :
                  Agrees(oReqs[k].Status, oReqs[k].Error, oReqs[k].ResultChan[i])
            /\ \A i \in 1..Len(oReqs[k].got) :
                  oReqs[k].got[i] # NilResult =>
                      Agrees(oReqs[k].Status, oReqs[k].Error, oReqs[k].got[i]))

\* the requests reachable through r.requests, and through r.byID
InRequests(k) == \E s \in OKeys : requests[s] = k
InByID(k) == \E i \in OKeys : byID[i] = k

\* C38: after any sequence of Register, Create, Fail, Remove, Delete and
\* cleanup (Create or Fail on a registered state included) the two indexes are
\* consistent: a request is reachable through requests[its state] if and only
\* if it is reachable through byID[its ID]; byID has no orphan entry, and
\* GetByID never returns a request that Get no longer returns.
C38_IndexesConsistent ==
    /\ \A k \in 1..Len(oReqs) :
          (requests[oReqs[k].State] = k) <=> (byID[oReqs[k].ID] = k)
    /\ \A s \in OKeys : requests[s] # 0 => oReqs[requests[s]].State = s
    /\ \A i \in OKeys :
          byID[i] # 0 => (oReqs[byID[i]].ID = i /\ InRequests(byID[i]))

\* a waiter on request k is, or can at once be, released: a result is in the
\* channel or was received, or the channel is closed
Released(k) ==
    oReqs[k].ResultChan # <<>> \/ oReqs[k].got # <<>> \/ oReqs[k].closes > 0

\* the results sent to request k so far that were not lost
Results(k) ==
    {oReqs[k].ResultChan[i] : i \in 1..Len(oReqs[k].ResultChan)}
        \cup {oReqs[k].got[i] : i \in 1..Len(oReqs[k].got)}

\* C39: every request made by Register or Create leaves the registry and its
\* waiter is released: once a cleanup has run at a time after the request's
\* expiry, the request is in neither index and its waiter has a result or a
\* closed channel; unless it was removed it is not pending any more, and if it
\* was still pending it is expired with the expired result on its ResultChan;
\* and cleanup sends nothing to a request that is not pending.
C39_CleanupReleases ==
    /\ [](\A k \in 1..Len(oReqs) :
            (oReqs[k].by \in {"Register", "Create"} /\ oCleaned > oReqs[k].ExpiresAt) =>
                /\ ~InRequests(k)
                /\ ~InByID(k)
                /\ Released(k)
                /\ oReqs[k].closes = 0 => oReqs[k].Status # "pending"
                /\ oReqs[k].Status = "expired" => OAuthResult("", "expired") \in Results(k))
    /\ [][\A k \in 1..Len(oReqs) :
            (oCleaned' # oCleaned /\ oReqs[k].Status # "pending") =>
                oReqs'[k].ResultChan = oReqs[k].ResultChan]_vars

====
